---------------------------- MODULE Spec2Model ----------------------------
(*************************************************************************)
(* Verification model of the DREAMSCAPE ML dataset construction pipeline *)
(* (src/ai/ml): label construction, negative sampling, data cleaning,    *)
(* GDPR anonymization, export/validation and the orchestration script.   *)
(*                                                                       *)
(* A dataset (pandas DataFrame) is a record                              *)
(*   [cols  |-> the set of column names,                                 *)
(*    dtype |-> the pandas dtype of every column whose values are kept,  *)
(*    rows  |-> the sequence of rows]                                    *)
(* and a row is a function from the columns whose values are kept to     *)
(* their values.  Numbers are integers in natural units (a score of 5.0  *)
(* is 5, a vector component of 1.0 is 1); NaN, NaT and None are the      *)
(* distinguished values below.                                           *)
(*************************************************************************)
EXTENDS Integers, Sequences, FiniteSets, TLC

VARIABLES
    pc,          \* position of the running script / function under study
    row,         \* the row handed to calculate_engagement_score
    score,       \* the value calculate_engagement_score returned
    ratio,       \* add_negative_samples' ratio argument, in units of 1/RatioDen
    df_in,       \* the DataFrame handed to the function under study
    df,          \* the DataFrame the current stage produced
    df_twice,    \* clean_dataset applied to its own output
    users_df,    \* run_etl_pipeline: users_df
    recs_df,     \* run_etl_pipeline: recs_df
    searches_df, \* run_etl_pipeline: searches_df
    train_df,    \* run_etl_pipeline: train_df
    test_df,     \* run_etl_pipeline: test_df
    written,     \* names of the snapshot files written so far
    window_days, \* run_etl_pipeline: window_days
    metadata,    \* run_etl_pipeline: metadata
    rare_threshold \* remove_rare_categories' threshold argument

vars == <<pc, row, score, ratio, df_in, df, df_twice,
          users_df, recs_df, searches_df, train_df, test_df, written,
          window_days, metadata, rare_threshold>>

-----------------------------------------------------------------------------
(* Null values. *)

\* float('nan') / pandas NaT in a numeric or timestamp column
NaN == -99

\* None in an object (string) column
None == "None"

\* pd.notna on a value of a numeric or timestamp column
notna(x) == x # NaN

\* pd.notna on a value of an object (string) column
notna_str(x) == x # None

-----------------------------------------------------------------------------
(* Generic helpers on sequences. *)

Range(s) == {s[i] : i \in DOMAIN s}

RECURSIVE SelectIdx(_, _)
\* the subsequence of s at the positions in idx, in order (boolean-mask indexing)
SelectIdx(s, idx) ==
    IF s = <<>> THEN <<>>
    ELSE LET n == Len(s)
             front == SelectIdx(SubSeq(s, 1, n - 1), idx)
         IN  IF n \in idx THEN Append(front, s[n]) ELSE front

\* df[mask]: the rows satisfying P, in order
Filter(s, P(_)) == SelectIdx(s, {i \in DOMAIN s : P(s[i])})

\* number of rows of s equal to r
Count(s, r) == Cardinality({i \in DOMAIN s : s[i] = r})

\* all orderings of the positions 1..n (DataFrame.sample(frac=1))
Perms(n) == {p \in [1..n -> 1..n] : \A i, j \in 1..n : i # j => p[i] # p[j]}

RECURSIVE SumSeq(_)
SumSeq(s) == IF s = <<>> THEN 0 ELSE s[Len(s)] + SumSeq(SubSeq(s, 1, Len(s) - 1))

\* a dataset with the given columns, dtypes and rows
Frame(cols, dtype, rows) == [cols |-> cols, dtype |-> dtype, rows |-> rows]

\* the value of a variable no step of the current specification uses
Unused == <<>>

-----------------------------------------------------------------------------
(* config/dataset_config.py *)

ENGAGEMENT_SCORES ==
    [NOT_VIEWED |-> 0, VIEWED |-> 1, CLICKED |-> 3, BOOKED |-> 5, REJECTED |-> -1]

\* NEGATIVE_SAMPLE_RATIO = 2.0
NEGATIVE_SAMPLE_RATIO == 2

\* DATA_WINDOW_DAYS = 90
DATA_WINDOW_DAYS == 90

AGE_BINS == <<0, 25, 35, 50, 65, 100>>
AGE_LABELS == <<"18-25", "26-35", "36-50", "51-65", "65+">>

COUNTRY_TO_REGION ==
    [c \in {"FR", "DE", "IT", "ES", "UK", "PT", "NL", "BE", "CH", "AT",
            "GR", "SE", "NO", "DK", "FI"} |-> "Europe"] @@
    [c \in {"US", "CA", "MX"} |-> "North America"] @@
    [c \in {"CN", "JP", "KR", "IN", "TH", "VN", "ID", "MY", "SG", "PH"} |-> "Asia"] @@
    [c \in {"AE", "SA", "IL", "TR"} |-> "Middle East"] @@
    [c \in {"AU", "NZ"} |-> "Oceania"] @@
    [c \in {"BR", "AR", "CL", "PE"} |-> "South America"] @@
    [c \in {"ZA", "EG", "MA", "KE"} |-> "Africa"]

REQUIRED_COLUMNS ==
    {"user_hash", "user_climate_pref", "user_culture_pref", "user_budget_level",
     "user_activity_level", "item_destination_id", "recommendation_score",
     "engagement_score", "booking_probability"}

VECTOR_DIMENSIONS ==
    <<"climate_pref", "culture_pref", "budget_level", "activity_level",
      "group_type", "urban_pref", "gastronomy_pref", "popularity_pref">>

-----------------------------------------------------------------------------
(* etl/label_construction.py *)

\* calculate_engagement_score with the viewed and rejected branches exchanged
calculate_engagement_score_Mut(r) ==
    IF notna(r.bookedAt) \/ r.status = "BOOKED" THEN ENGAGEMENT_SCORES.BOOKED
    ELSE IF notna(r.clickedAt) \/ r.status = "CLICKED" THEN ENGAGEMENT_SCORES.CLICKED
    ELSE IF notna(r.rejectedAt) \/ r.status = "REJECTED" THEN ENGAGEMENT_SCORES.REJECTED
    ELSE IF notna(r.viewedAt) \/ r.status = "VIEWED" THEN ENGAGEMENT_SCORES.VIEWED
    ELSE ENGAGEMENT_SCORES.NOT_VIEWED

\* calculate_engagement_score(row)
calculate_engagement_score(r) ==
    IF notna(r.bookedAt) \/ r.status = "BOOKED" THEN ENGAGEMENT_SCORES.BOOKED
    ELSE IF notna(r.clickedAt) \/ r.status = "CLICKED" THEN ENGAGEMENT_SCORES.CLICKED
    ELSE IF notna(r.viewedAt) \/ r.status = "VIEWED" THEN ENGAGEMENT_SCORES.VIEWED
    ELSE IF notna(r.rejectedAt) \/ r.status = "REJECTED" THEN ENGAGEMENT_SCORES.REJECTED
    ELSE ENGAGEMENT_SCORES.NOT_VIEWED

-----------------------------------------------------------------------------
(* etl/negative_sampling.py *)

\* the rows of s at the positions p[1], p[2], ... (a reordering of s)
Permute(s, p) == [i \in DOMAIN p |-> s[p[i]]]

\* DataFrame.sample(n=n, random_state=42): n rows of s drawn without
\* replacement, in some order; the seed fixes one outcome, any is possible
Sample(s, n) ==
    {Permute(SelectIdx(s, idx), p) :
        idx \in {x \in SUBSET DOMAIN s : Cardinality(x) = n}, p \in Perms(n)}

\* the denominator of the ratios: a ratio r stands for r/RatioDen, a value a
\* binary float holds exactly, as it does the product with a row count
RatioDen == 4

\* round(n_positives * ratio) in place of int(...), rounding half to even
n_target_negatives_Mut(n_positives, r) ==
    LET q == (n_positives * r) \div RatioDen
        rem == (n_positives * r) % RatioDen
    IN  IF 2 * rem > RatioDen \/ (2 * rem = RatioDen /\ q % 2 = 1) THEN q + 1 ELSE q

\* int(n_positives * ratio), ratio >= 0 in units of 1/RatioDen
n_target_negatives(n_positives, r) == (n_positives * r) \div RatioDen

\* add_negative_samples taking every row with a non-zero score as positive
add_negative_samples_Mut(d, r) ==
    LET positives == Filter(d.rows, LAMBDA x : x.engagement_score # 0)
        negatives == Filter(d.rows, LAMBDA x : x.engagement_score = 0)
        n_positives == Len(positives)
        n_target == n_target_negatives(n_positives, r)
        sampled == IF Len(negatives) > n_target
                   THEN Sample(negatives, n_target)
                   ELSE {negatives}
    IN  UNION {{Frame(d.cols, d.dtype, Permute(positives \o neg, p)) :
                    p \in Perms(n_positives + Len(neg))} : neg \in sampled}

\* add_negative_samples(df, ratio): the set of DataFrames it can return
add_negative_samples(d, r) ==
    LET positives == Filter(d.rows, LAMBDA x : x.engagement_score > 0)
        negatives == Filter(d.rows, LAMBDA x : x.engagement_score = 0)
        n_positives == Len(positives)
        n_negatives_available == Len(negatives)
        n_target == n_target_negatives(n_positives, r)
        sampled == IF n_negatives_available > n_target
                   THEN Sample(negatives, n_target)
                   ELSE {negatives}
    IN  UNION {{Frame(d.cols, d.dtype, Permute(positives \o neg, p)) :
                    p \in Perms(n_positives + Len(neg))} : neg \in sampled}

-----------------------------------------------------------------------------
(* Column names and dtypes. *)

\* the columns whose values a dataset keeps
Tracked(d) == DOMAIN d.dtype

\* Series.isnull() on a value of column c
isnull(d, c, v) ==
    IF d.dtype[c] \in {"object", "category"} THEN v = None ELSE v = NaN

\* select_dtypes(include=['float32', 'float64', 'int32', 'int64'])
IsNumericDtype(t) == t \in {"float32", "float64", "int32", "int64"}

\* df[col].dtype in ['float32', 'float64']
IsFloatDtype(t) == t \in {"float32", "float64"}

\* f'user_{dim}' / f'item_{dim}' for dim in VECTOR_DIMENSIONS
UserVectorCols == {"user_" \o VECTOR_DIMENSIONS[i] : i \in DOMAIN VECTOR_DIMENSIONS}
ItemVectorCols == {"item_" \o VECTOR_DIMENSIONS[i] : i \in DOMAIN VECTOR_DIMENSIONS}

\* the column names of the pipeline that contain '_pref'
ColsContainingPref ==
    {"user_climate_pref", "user_culture_pref", "user_urban_pref",
     "user_gastronomy_pref", "user_popularity_pref",
     "item_climate_pref", "item_culture_pref", "item_urban_pref",
     "item_gastronomy_pref", "item_popularity_pref"}

\* the column names of the pipeline that contain '_level'
ColsContainingLevel ==
    {"user_budget_level", "user_activity_level",
     "item_budget_level", "item_activity_level"}

\* the column names of the pipeline that start with 'user_'
ColsUserPrefixed ==
    UserVectorCols \cup
    {"user_id", "user_vector", "user_created_at", "user_age", "user_hash",
     "user_region", "user_age_group", "user_nationality"}

\* the column names of the pipeline that start with 'item_'
ColsItemPrefixed ==
    ItemVectorCols \cup
    {"item_vector", "item_country", "item_popularity_score",
     "item_booking_count", "item_search_count", "item_destination_id"}

-----------------------------------------------------------------------------
(* etl/data_cleaning.py *)

\* df.dropna(subset=[c])
dropna(d, c) ==
    [d EXCEPT !.rows = SelectIdx(@, {i \in DOMAIN @ : ~isnull(d, c, @[i][c])})]

RECURSIVE DropMissing(_, _)
\* the loop of remove_missing_required over the list cs
DropMissing(d, cs) ==
    IF cs = <<>> THEN d
    ELSE DropMissing(IF Head(cs) \in d.cols THEN dropna(d, Head(cs)) ELSE d, Tail(cs))

\* remove_missing_required(df)
remove_missing_required(d) ==
    DropMissing(d, <<"user_id", "user_climate_pref", "recommendation_score",
                     "engagement_score">>)

\* the non-null values of column c, in row order
NonNull(d, c) ==
    LET keep == SelectIdx(d.rows, {i \in DOMAIN d.rows : ~isnull(d, c, d.rows[i][c])})
    IN  [i \in DOMAIN keep |-> keep[i][c]]

\* the k-th smallest value of the sequence vals (1 <= k <= Len(vals))
KthSmallest(vals, k) ==
    CHOOSE v \in Range(vals) :
        /\ Cardinality({i \in DOMAIN vals : vals[i] < v}) < k
        /\ Cardinality({i \in DOMAIN vals : vals[i] <= v}) >= k

\* Series.median(): skips nulls; NaN when no value is left; the mean of the
\* two middle values for an even count (the columns of the model that hold
\* nulls hold even integers, which keeps that mean an integer)
median(d, c) ==
    LET vals == NonNull(d, c)
        n == Len(vals)
    IN  IF n = 0 THEN NaN
        ELSE IF n % 2 = 1 THEN KthSmallest(vals, (n + 1) \div 2)
        ELSE (KthSmallest(vals, n \div 2) + KthSmallest(vals, n \div 2 + 1)) \div 2

\* df[c].fillna(v, inplace=True)
fillna(d, c, v) ==
    [d EXCEPT !.rows =
        [i \in DOMAIN @ |-> IF isnull(d, c, @[i][c]) THEN [@[i] EXCEPT ![c] = v]
                            ELSE @[i]]]

\* the value impute_missing_values fills column c with
ImputeValue(d, c) ==
    IF IsNumericDtype(d.dtype[c]) THEN median(d, c)
    ELSE "UNKNOWN"

\* impute_missing_values(df): numeric columns get their median, object
\* columns "UNKNOWN"; columns are filled independently of each other
impute_missing_values(d) ==
    [d EXCEPT !.rows =
        [i \in DOMAIN @ |->
            [c \in DOMAIN @[i] |->
                IF /\ (IsNumericDtype(d.dtype[c]) \/ d.dtype[c] = "object")
                   /\ isnull(d, c, @[i][c])
                THEN ImputeValue(d, c)
                ELSE @[i][c]]]]

\* n*n*(n-1) times the sample variance (Series.std() squared, ddof=1) of vals
ScaledVar(vals) ==
    LET n == Len(vals)
        S == SumSeq(vals)
        Q == SumSeq([i \in DOMAIN vals |-> vals[i] * vals[i]])
    IN  n * Q - S * S

\* lower_bound <= v <= upper_bound with the bounds mean -/+ 3 * std of vals:
\* |v - mean| <= 3 * std, squared and multiplied by n*n*(n-1)
Within3Sigma(v, vals) ==
    LET n == Len(vals)
        S == SumSeq(vals)
    IN  v # NaN /\ (n - 1) * (n * v - S) * (n * v - S) <= 9 * n * ScaledVar(vals)

\* one iteration of the loop of remove_outliers, for column c
OutlierStep(d, c) ==
    IF c \notin d.cols THEN d
    ELSE LET vals == NonNull(d, c)
         IN  \* std > 0: std is NaN for fewer than two values
             IF Len(vals) >= 2 /\ ScaledVar(vals) > 0
             THEN [d EXCEPT !.rows =
                      SelectIdx(@, {i \in DOMAIN @ : Within3Sigma(@[i][c], vals)})]
             ELSE d

\* remove_outliers with the bounds of every column taken from the DataFrame
\* it was handed, not from the rows left by the columns before
remove_outliers_Mut(d) ==
    LET filters(c) == c \in d.cols /\ Len(NonNull(d, c)) >= 2
                          /\ ScaledVar(NonNull(d, c)) > 0
    IN  [d EXCEPT !.rows =
            SelectIdx(@, {i \in DOMAIN @ :
                \A c \in {"budget_max", "user_age", "item_booking_count"} :
                    filters(c) => Within3Sigma(@[i][c], NonNull(d, c))})]

\* remove_outliers(df)
remove_outliers(d) ==
    OutlierStep(OutlierStep(OutlierStep(d, "budget_max"), "user_age"),
                "item_booking_count")

\* Series.clip(0, 1) on one value
clip01(v) == IF v = NaN THEN NaN ELSE IF v < 0 THEN 0 ELSE IF v > 1 THEN 1 ELSE v

\* '_pref' in c or '_level' in c or c.startswith('user_') or c.startswith('item_')
IsCleaningVectorCol(c) ==
    c \in ColsContainingPref \cup ColsContainingLevel \cup ColsUserPrefixed
              \cup ColsItemPrefixed

\* data_cleaning.validate_vector_ranges(df)
clean_validate_vector_ranges(d) ==
    [d EXCEPT !.rows =
        [i \in DOMAIN @ |->
            [c \in DOMAIN @[i] |->
                IF IsCleaningVectorCol(c) /\ IsFloatDtype(d.dtype[c])
                THEN clip01(@[i][c])
                ELSE @[i][c]]]]

\* a drop_duplicates that keeps the last row of every pair
drop_duplicates_Mut(d) ==
    [d EXCEPT !.rows =
        SelectIdx(@, {i \in DOMAIN @ :
            \A j \in (i + 1)..Len(@) :
                ~(/\ @[j].user_id = @[i].user_id
                  /\ @[j].recommendation_id = @[i].recommendation_id)})]

\* df.drop_duplicates(subset=['user_id', 'recommendation_id']): keeps the
\* first row of every pair
drop_duplicates(d) ==
    [d EXCEPT !.rows =
        SelectIdx(@, {i \in DOMAIN @ :
            \A j \in 1..(i - 1) :
                ~(/\ @[j].user_id = @[i].user_id
                  /\ @[j].recommendation_id = @[i].recommendation_id)})]

\* remove_duplicates(df)
remove_duplicates(d) ==
    IF "user_id" \in d.cols /\ "recommendation_id" \in d.cols
    THEN drop_duplicates(d)
    ELSE d

\* clean_dataset(df)
clean_dataset(d) ==
    remove_duplicates(
        clean_validate_vector_ranges(
            remove_outliers(
                impute_missing_values(
                    remove_missing_required(d)))))

-----------------------------------------------------------------------------
(* etl/gdpr_anonymization.py *)

\* str(x) of a user identifier: identifiers are strings, None gives 'None'
str_user_id(x) == x

\* hashlib.sha256(s.encode()).hexdigest(): a digest, taken as injective
sha256_hexdigest(s) == "sha256:" \o s

\* a new column c of dtype t whose value in row i is vals[i]
WithColumn(d, c, t, vals) ==
    Frame(d.cols \cup {c},
          (c :> t) @@ d.dtype,
          [i \in DOMAIN d.rows |-> (c :> vals[i]) @@ d.rows[i]])

\* df.drop(columns=cs)
DropColumns(d, cs) ==
    Frame(d.cols \ cs,
          [c \in DOMAIN d.dtype \ cs |-> d.dtype[c]],
          [i \in DOMAIN d.rows |-> [c \in DOMAIN d.rows[i] \ cs |-> d.rows[i][c]]])

\* hash_user_ids(df)
hash_user_ids(d) ==
    IF "user_id" \in d.cols
    THEN WithColumn(d, "user_hash", "object",
            [i \in DOMAIN d.rows |->
                sha256_hexdigest(str_user_id(d.rows[i].user_id))])
    ELSE d

\* Series.map(COUNTRY_TO_REGION).fillna('Other') on one value
region_of(country) ==
    IF country \in DOMAIN COUNTRY_TO_REGION THEN COUNTRY_TO_REGION[country]
    ELSE "Other"

\* generalize_nationality(df)
generalize_nationality(d) ==
    IF "user_nationality" \in d.cols
    THEN DropColumns(
            WithColumn(d, "user_region", "object",
                [i \in DOMAIN d.rows |-> region_of(d.rows[i].user_nationality)]),
            {"user_nationality"})
    ELSE d

\* a pd.cut with right=False: left-closed bins
cut_age_Mut(age) ==
    IF age = NaN \/ age < AGE_BINS[1] \/ age >= AGE_BINS[Len(AGE_BINS)] THEN None
    ELSE LET k == CHOOSE j \in DOMAIN AGE_LABELS :
                      age >= AGE_BINS[j] /\ age < AGE_BINS[j + 1]
         IN  AGE_LABELS[k]

\* pd.cut(age, bins=AGE_BINS, labels=AGE_LABELS, include_lowest=True) on one
\* value: right-closed bins, the first one closed on the left as well
cut_age(age) ==
    IF age = NaN \/ age < AGE_BINS[1] \/ age > AGE_BINS[Len(AGE_BINS)] THEN None
    ELSE LET k == CHOOSE j \in DOMAIN AGE_LABELS :
                      /\ age <= AGE_BINS[j + 1]
                      /\ (j = 1 \/ age > AGE_BINS[j])
         IN  AGE_LABELS[k]

\* bin_age(df)
bin_age(d) ==
    IF "user_age" \in d.cols
    THEN DropColumns(
            WithColumn(d, "user_age_group", "category",
                [i \in DOMAIN d.rows |-> cut_age(d.rows[i].user_age)]),
            {"user_age"})
    ELSE d

\* df[c].value_counts()[v]: the number of rows whose column c holds v
value_count(d, c, v) == Cardinality({i \in DOMAIN d.rows : d.rows[i][c] = v})

\* value_counts[value_counts < threshold].index: nulls are not counted
rare_values(d, c, threshold) ==
    {v \in {d.rows[i][c] : i \in DOMAIN d.rows} :
        v # None /\ value_count(d, c, v) < threshold}

\* remove_rare_categories(df, threshold)
remove_rare_categories(d, threshold) ==
    [d EXCEPT !.rows =
        [i \in DOMAIN @ |->
            [c \in DOMAIN @[i] |->
                IF d.dtype[c] = "object" /\ @[i][c] \in rare_values(d, c, threshold)
                THEN "OTHER"
                ELSE @[i][c]]]]

pii_cols ==
    {"user_id", "email", "firstName", "lastName", "phoneNumber", "phone",
     "dateOfBirth", "avatar", "recommendation_id"}

\* remove_pii(df)
remove_pii(d) == DropColumns(d, pii_cols \cap d.cols)

\* the threshold anonymize_dataset passes to remove_rare_categories
RareThreshold == 10

\* anonymize_dataset with the PII columns removed first
anonymize_dataset_Mut(d) ==
    remove_rare_categories(
        bin_age(generalize_nationality(hash_user_ids(remove_pii(d)))),
        RareThreshold)

\* anonymize_dataset(df)
anonymize_dataset(d) ==
    remove_pii(
        remove_rare_categories(
            bin_age(generalize_nationality(hash_user_ids(d))),
            RareThreshold))

-----------------------------------------------------------------------------
(* etl/extract_*.py: the column names the three queries produce. *)

RecommendationColumns ==
    {"recommendation_id", "user_id", "itemVectorId", "destinationId",
     "destinationName", "destinationType", "recommendation_score",
     "recommendation_confidence", "contextType", "contextData", "status",
     "viewedAt", "clickedAt", "bookedAt", "rejectedAt", "userRating", "createdAt",
     "user_vector", "primarySegment", "item_vector", "item_country",
     "item_popularity_score", "item_booking_count", "item_search_count"}

UserColumns ==
    {"user_id", "dateOfBirth", "nationality", "userCategory", "user_created_at",
     "user_vector", "primarySegment", "segmentConfidence", "vector_updated_at",
     "travelTypes", "globalBudgetRange", "budgetFlexibility", "activityLevel",
     "accommodationLevel", "travelWithChildren", "climatePreferences",
     "riskTolerance", "budgetRange", "preferredCabinClass", "search_count_90d",
     "booking_count_lifetime", "avg_booking_value"}

SearchColumns ==
    {"search_id", "user_id", "search_origin", "search_destination",
     "departureDate", "returnDate", "search_passengers", "search_cabin_class",
     "searchedAt", "resultsCount"}

\* a vector cell that holds None instead of a list
NoVector == [type |-> "NoneType", float |-> FALSE, vals |-> <<>>]

\* a globalBudgetRange cell that holds None
NoBudgetRange == [keys |-> {}, max |-> 0]

\* once a stage has read them, the list and dict cells of an object column
\* are kept by their type only
ListCell == "<list>"
DictCell == "<dict>"

\* the cells Series.value_counts() cannot hash (TypeError: unhashable type)
UnhashableCells == {ListCell, DictCell}

\* a globalBudgetRange cell {'max': m}, m in thousands
BudgetRange(m) == [keys |-> {"max"}, max |-> m]

\* int64 for a column of integers without a null, float64 otherwise
IntOrFloat(vals) == IF \E i \in DOMAIN vals : vals[i] = NaN THEN "float64" ELSE "int64"

\* column c of the rows, as a sequence
Column(rows, c) == [i \in DOMAIN rows |-> rows[i][c]]

-----------------------------------------------------------------------------
(* etl/merge_datasets.py *)

\* the rows of right whose user_id equals that of l, in order
Matches(l, right) == SelectIdx(right, {j \in DOMAIN right : right[j].user_id = l.user_id})

RECURSIVE LeftJoin(_, _, _)
\* left.merge(right, on='user_id', how='left'): every left row paired with
\* each matching right row in turn, or once with the all-null right row
LeftJoin(left, right, nulls) ==
    IF left = <<>> THEN <<>>
    ELSE LET l == left[Len(left)]
             m == Matches(l, right)
         IN  LeftJoin(SubSeq(left, 1, Len(left) - 1), right, nulls) \o
             (IF m = <<>> THEN << <<l, nulls>> >>
              ELSE [j \in DOMAIN m |-> <<l, m[j]>>])

\* a recommendation row joined with a user row: the user's columns are
\* added and user_vector is user_vector_rec.fillna(user_vector_user)
JoinUser(l, u) ==
    [c \in DOMAIN l \cup {"dateOfBirth", "nationality", "globalBudgetRange"} |->
        IF c = "user_vector"
            THEN (IF l.user_vector # NoVector THEN l.user_vector ELSE u.user_vector)
        ELSE IF c \in DOMAIN l THEN l[c]
        ELSE u[c]]

\* the tracked user columns of a recommendation without a user row
NullUser ==
    [user_id |-> None, user_vector |-> NoVector, dateOfBirth |-> NaN,
     nationality |-> None, globalBudgetRange |-> NoBudgetRange]

\* a merged row joined with a search row: the search's columns are added
JoinSearch(l, srch) ==
    [c \in DOMAIN l \cup DOMAIN srch |-> IF c \in DOMAIN l THEN l[c] ELSE srch[c]]

\* the tracked search columns of a row without a search row
NullSearch(searches) ==
    [c \in Tracked(searches) |-> IF searches.dtype[c] = "object" THEN None ELSE NaN]

\* pd.read_parquet(path) of a snapshot written by to_parquet: scalars and
\* nulls come back as written, a list cell comes back as a numpy array
read_parquet(d) ==
    [d EXCEPT !.rows =
        [i \in DOMAIN @ |->
            [c \in DOMAIN @[i] |->
                IF c = "user_vector" /\ @[i][c].type = "list"
                THEN [@[i][c] EXCEPT !.type = "ndarray"]
                ELSE @[i][c]]]]

\* merge_datasets with how='inner' in the users merge: a recommendation
\* without a user row is dropped
merge_datasets_Mut(users_snapshot, recommendations_snapshot, searches_snapshot) ==
    LET users == read_parquet(users_snapshot)
        recommendations == read_parquet(recommendations_snapshot)
        searches == read_parquet(searches_snapshot)
        matched == SelectIdx(recommendations.rows,
                             {i \in DOMAIN recommendations.rows :
                                 Matches(recommendations.rows[i], users.rows) # <<>>})
        withUser == LeftJoin(matched, users.rows, NullUser)
        merged == [i \in DOMAIN withUser |-> JoinUser(withUser[i][1], withUser[i][2])]
        withSearch == LeftJoin(merged, searches.rows, NullSearch(searches))
        final == [i \in DOMAIN withSearch |->
                     JoinSearch(withSearch[i][1], withSearch[i][2])]
    IN  Frame(recommendations.cols \cup users.cols \cup searches.cols,
              [c \in DOMAIN recommendations.dtype \cup DOMAIN users.dtype
                      \cup DOMAIN searches.dtype |->
                  IF c = "item_booking_count" THEN IntOrFloat(Column(final, c))
                  ELSE IF c \in DOMAIN recommendations.dtype
                      THEN recommendations.dtype[c]
                  ELSE IF c \in DOMAIN users.dtype THEN users.dtype[c]
                  ELSE searches.dtype[c]],
              final)

\* merge_datasets(): the three snapshots are read back, then recommendations
\* are joined with users, then with searches
merge_datasets(users_snapshot, recommendations_snapshot, searches_snapshot) ==
    LET users == read_parquet(users_snapshot)
        recommendations == read_parquet(recommendations_snapshot)
        searches == read_parquet(searches_snapshot)
        withUser == LeftJoin(recommendations.rows, users.rows, NullUser)
        merged == [i \in DOMAIN withUser |-> JoinUser(withUser[i][1], withUser[i][2])]
        withSearch == LeftJoin(merged, searches.rows, NullSearch(searches))
        final == [i \in DOMAIN withSearch |->
                     JoinSearch(withSearch[i][1], withSearch[i][2])]
    IN  Frame(recommendations.cols \cup users.cols \cup searches.cols,
              [c \in DOMAIN recommendations.dtype \cup DOMAIN users.dtype
                      \cup DOMAIN searches.dtype |->
                  IF c = "item_booking_count" THEN IntOrFloat(Column(final, c))
                  ELSE IF c \in DOMAIN recommendations.dtype
                      THEN recommendations.dtype[c]
                  ELSE IF c \in DOMAIN users.dtype THEN users.dtype[c]
                  ELSE searches.dtype[c]],
              final)

-----------------------------------------------------------------------------
(* etl/feature_engineering.py *)

\* x if isinstance(x, list) else [0]*8
vector_or_zeros(x) == IF x.type = "list" THEN x.vals ELSE <<0, 0, 0, 0, 0, 0, 0, 0>>

\* the position of dimension name dim in VECTOR_DIMENSIONS
DimIndex(dim) == CHOOSE k \in DOMAIN VECTOR_DIMENSIONS : VECTOR_DIMENSIONS[k] = dim

\* the dimension a column user_<dim> stands for
UserDim(c) == CHOOSE k \in DOMAIN VECTOR_DIMENSIONS : c = "user_" \o VECTOR_DIMENSIONS[k]

\* pd.DataFrame(user_vectors.tolist(), columns=...) raises ValueError: the
\* widest list gives the number of columns of the data, which must be the
\* eight names passed (a DataFrame without rows has no data to compare)
unpack_raises(vectors) ==
    /\ vectors # <<>>
    /\ \/ \E i \in DOMAIN vectors : Len(vector_or_zeros(vectors[i])) > 8
       \/ \A i \in DOMAIN vectors : Len(vector_or_zeros(vectors[i])) < 8

\* cell k of a row of pd.DataFrame(user_vectors.tolist()): a list shorter
\* than the widest one is filled up with nulls
padded(v, k) == IF k <= Len(v) THEN v[k] ELSE NaN

\* unpack_8d_vectors(df): eight user_ columns with values, eight item_
\* columns by name; the column user_vector stays, its cells (lists or
\* arrays) are not read again and are kept as ListCell or None
unpack_8d_vectors(d) ==
    LET anyFloat == \E i \in DOMAIN d.rows :
                        \/ d.rows[i].user_vector.type = "list"
                              /\ d.rows[i].user_vector.float
                        \/ Len(vector_or_zeros(d.rows[i].user_vector)) < 8
        t == IF anyFloat THEN "float64" ELSE "int64"
    IN  Frame(d.cols \cup UserVectorCols \cup ItemVectorCols,
              [c \in Tracked(d) \cup UserVectorCols |->
                  IF c \in UserVectorCols THEN t ELSE d.dtype[c]],
              [i \in DOMAIN d.rows |->
                  [c \in Tracked(d) \cup UserVectorCols |->
                      IF c \in UserVectorCols
                          THEN padded(vector_or_zeros(d.rows[i].user_vector), UserDim(c))
                      ELSE IF c = "user_vector"
                          THEN (IF d.rows[i][c] = NoVector THEN None ELSE ListCell)
                      ELSE d.rows[i][c]]])

\* ((now - dateOfBirth).dt.days // 365).clip(lower=18, upper=100); a birth
\* date is kept as the whole years elapsed since
age_of(dateOfBirth) ==
    IF dateOfBirth = NaN THEN NaN
    ELSE IF dateOfBirth < 18 THEN 18
    ELSE IF dateOfBirth > 100 THEN 100
    ELSE dateOfBirth

\* calculate_temporal_features(df): user_age with values, the other
\* features by name
calculate_temporal_features(d) ==
    LET ages == [i \in DOMAIN d.rows |-> age_of(d.rows[i].dateOfBirth)]
        aged == WithColumn(d, "user_age", IntOrFloat(ages), ages)
    IN  [aged EXCEPT !.cols =
            @ \cup {"timestamp", "season", "is_weekend", "days_until_departure",
                    "days_since_last_search", "days_since_last_booking"}]

\* x.get('max', 5000) if isinstance(x, dict) and x else 5000, in thousands
budget_max_of(x) == IF "max" \in x.keys THEN x.max ELSE 5

\* transform_jsonb_fields(df): budget_max with values, budget_min and
\* travel_types by name; the column globalBudgetRange stays, its cells are
\* not read again and are kept as DictCell or None
transform_jsonb_fields(d) ==
    LET maxes == [i \in DOMAIN d.rows |-> budget_max_of(d.rows[i].globalBudgetRange)]
        kept == [d EXCEPT !.rows =
                    [i \in DOMAIN @ |->
                        [@[i] EXCEPT !.globalBudgetRange =
                            IF @ = NoBudgetRange THEN None ELSE DictCell]]]
        out == WithColumn(kept, "budget_max", "int64", maxes)
    IN  [out EXCEPT !.cols = @ \cup {"budget_min", "travel_types"}]

\* engineer_features that keeps only the rows with a user_vector
engineer_features_Mut(d) ==
    transform_jsonb_fields(calculate_temporal_features(unpack_8d_vectors(
        [d EXCEPT !.rows =
            SelectIdx(@, {i \in DOMAIN @ : @[i].user_vector # NoVector})])))

\* engineer_features(df)
engineer_features(d) ==
    transform_jsonb_fields(calculate_temporal_features(unpack_8d_vectors(d)))

-----------------------------------------------------------------------------
(* etl/label_construction.py: construct_labels *)

\* Series.astype(str) on a recommendation identifier
astype_str(x) == ToString(x)

\* get_interaction_type(row)
get_interaction_type(s) ==
    IF s = 5 THEN "BOOKED"
    ELSE IF s = 3 THEN "CLICKED"
    ELSE IF s = 1 THEN "VIEWED"
    ELSE IF s = -1 THEN "REJECTED"
    ELSE "NOT_VIEWED"

\* a booking probability that also counts a click as a booking
booking_probability_of_Mut(s) == IF s >= ENGAGEMENT_SCORES.CLICKED THEN 1 ELSE 0

\* (engagement_score == ENGAGEMENT_SCORES['BOOKED']).astype(int)
booking_probability_of(s) == IF s = ENGAGEMENT_SCORES.BOOKED THEN 1 ELSE 0

\* construct_labels(df); time_to_interaction by name
construct_labels(d) ==
    LET scores == [i \in DOMAIN d.rows |-> calculate_engagement_score(d.rows[i])]
        d1 == WithColumn(d, "engagement_score", "float64", scores)
        d2 == WithColumn(d1, "booking_probability", "int64",
                  [i \in DOMAIN d.rows |-> booking_probability_of(scores[i])])
        d3 == WithColumn(d2, "interaction_type", "object",
                  [i \in DOMAIN d.rows |-> get_interaction_type(scores[i])])
        d4 == WithColumn(d3, "interaction_id", "object",
                  [i \in DOMAIN d.rows |-> astype_str(d.rows[i].recommendation_id)])
    IN  [d4 EXCEPT !.cols = @ \cup {"time_to_interaction"}]

-----------------------------------------------------------------------------
(* etl/export_dataset.py and utils/validators.py *)

\* TEST_SIZE = 0.2, as TEST_SIZE_NUM / TEST_SIZE_DEN
TEST_SIZE_NUM == 1
TEST_SIZE_DEN == 5

\* ceil(test_size * n_samples)
n_test_of(n) == (TEST_SIZE_NUM * n + TEST_SIZE_DEN - 1) \div TEST_SIZE_DEN

\* the distinct values of engagement_score (the strata)
Classes(rows) == {rows[i].engagement_score : i \in DOMAIN rows}

\* the positions of the rows of class k
ClassIdx(rows, k) == {i \in DOMAIN rows : rows[i].engagement_score = k}

\* train_test_split(..., stratify=...) raises ValueError: no rows, an empty
\* train part, a class with a single member, or fewer rows in a part than
\* there are classes
split_raises(rows) ==
    LET n == Len(rows)
        n_test == n_test_of(n)
        n_train == n - n_test
        n_classes == Cardinality(Classes(rows))
    IN  \/ n = 0
        \/ n_train = 0
        \/ \E k \in Classes(rows) : Cardinality(ClassIdx(rows, k)) < 2
        \/ n_train < n_classes
        \/ n_test < n_classes

\* the train index sets a stratified split can produce: n_train positions,
\* each class contributing the floor or the ceiling of its share
TrainIndexSets(rows) ==
    LET n == Len(rows)
        n_train == n - n_test_of(n)
    IN  {tr \in SUBSET DOMAIN rows :
            /\ Cardinality(tr) = n_train
            /\ \A k \in Classes(rows) :
                  LET c == Cardinality(ClassIdx(rows, k))
                      got == Cardinality(tr \cap ClassIdx(rows, k))
                  IN  /\ got >= (c * n_train) \div n
                      /\ got <= (c * n_train + n - 1) \div n}

\* the (train_df, test_df) pairs train_test_split can return: a stratified
\* choice of positions, each part in a shuffled order
train_test_split(d) ==
    UNION {
        {<<[d EXCEPT !.rows = Permute(SelectIdx(d.rows, tr), p)],
           [d EXCEPT !.rows = Permute(SelectIdx(d.rows, DOMAIN d.rows \ tr), q)]>> :
            p \in Perms(Cardinality(tr)),
            q \in Perms(Len(d.rows) - Cardinality(tr))} :
        tr \in TrainIndexSets(d.rows)}

\* df[col].value_counts() in remove_rare_categories raises TypeError: an
\* object column holds a list or a dict
value_counts_raises(d) ==
    \E c \in Tracked(d) :
        /\ d.dtype[c] = "object"
        /\ \E i \in DOMAIN d.rows : d.rows[i][c] \in UnhashableCells

\* df.to_parquet() raises (pyarrow cannot build an array): an object column
\* mixes list or dict cells with strings
to_parquet_raises(d) ==
    \E c \in Tracked(d) :
        /\ d.dtype[c] = "object"
        /\ \E i, j \in DOMAIN d.rows :
              /\ d.rows[i][c] \in UnhashableCells
              /\ d.rows[j][c] \notin UnhashableCells \cup {None}

\* validate_required_columns(df) raises ValueError
required_columns_raises(d) ==
    \/ REQUIRED_COLUMNS \ d.cols # {}
    \/ \E c \in REQUIRED_COLUMNS : \E i \in DOMAIN d.rows : isnull(d, c, d.rows[i][c])

\* the column names of the pipeline that end with '_pref', '_level' or '_type'
ColsWithVectorSuffix ==
    ColsContainingPref \cup ColsContainingLevel \cup
    {"user_group_type", "item_group_type", "interaction_type"}

\* df[col] < 0 raises TypeError: an object column that holds a string (a
\* null cell compares as False)
compare_raises(d, c) ==
    d.dtype[c] = "object" /\ \E i \in DOMAIN d.rows : d.rows[i][c] # None

\* validators.validate_vector_ranges(df) raises TypeError
vector_ranges_raises(d) ==
    \E c \in ColsWithVectorSuffix \cap Tracked(d) : compare_raises(d, c)

\* validators.validate_vector_ranges(df): clips df in place
validate_vector_ranges(d) ==
    [d EXCEPT !.rows =
        [i \in DOMAIN @ |->
            [c \in DOMAIN @[i] |->
                IF c \in ColsWithVectorSuffix THEN clip01(@[i][c]) ELSE @[i][c]]]]

\* the position of column c in the column order
ColumnPos(order, c) == CHOOSE k \in DOMAIN order : order[k] = c

\* the position of the first column on which df[col] < 0 raises, one past
\* the end when there is none
FirstRaisingPos(d, order) ==
    LET bad == {k \in DOMAIN order :
                   /\ order[k] \in ColsWithVectorSuffix \cap Tracked(d)
                   /\ compare_raises(d, order[k])}
    IN  IF bad = {} THEN Len(order) + 1
        ELSE CHOOSE k \in bad : \A j \in bad : k <= j

\* df as validators.validate_vector_ranges leaves it: the loop follows the
\* column order and clips in place, up to the column on which it raises
validate_vector_ranges_inplace(d, order) ==
    [d EXCEPT !.rows =
        [i \in DOMAIN @ |->
            [c \in DOMAIN @[i] |->
                IF /\ c \in ColsWithVectorSuffix
                   /\ ColumnPos(order, c) < FirstRaisingPos(d, order)
                THEN clip01(@[i][c])
                ELSE @[i][c]]]]

\* a validate_engagement_scores that lets every score pass
engagement_scores_raises_Mut(d) ==
    /\ "engagement_score" \in d.cols
    /\ \E i \in DOMAIN d.rows : d.rows[i].engagement_score \notin {-1, 0, 1, 2, 3, 5}

\* validate_engagement_scores(df) raises ValueError
engagement_scores_raises(d) ==
    /\ "engagement_score" \in d.cols
    /\ \E i \in DOMAIN d.rows : d.rows[i].engagement_score \notin {-1, 0, 1, 3, 5}

\* validate_booking_probability(df) raises ValueError
booking_probability_raises(d) ==
    /\ "booking_probability" \in d.cols
    /\ \E i \in DOMAIN d.rows : d.rows[i].booking_probability \notin {0, 1}

\* validate_dataset(df) raises: the four validations in order, the second
\* one clipping df before the last two read it
validate_dataset_raises(d) ==
    \/ required_columns_raises(d)
    \/ vector_ranges_raises(d)
    \/ engagement_scores_raises(validate_vector_ranges(d))
    \/ booking_probability_raises(validate_vector_ranges(d))

-----------------------------------------------------------------------------
(* Specification SpecLabel: calculate_engagement_score on every row shape. *)

\* status strings: the five stage names, the initial status and another string
StatusValues == {"BOOKED", "CLICKED", "VIEWED", "REJECTED", "GENERATED", "EXPIRED"}

\* a timestamp column holds NaT or a time
Timestamps == {NaN, 1}

LabelRows ==
    [status : StatusValues, bookedAt : Timestamps, clickedAt : Timestamps,
     viewedAt : Timestamps, rejectedAt : Timestamps]

InitLabel ==
    /\ window_days = DATA_WINDOW_DAYS /\ metadata = Unused
    /\ rare_threshold = RareThreshold
    /\ pc = "label_row"
    /\ row \in LabelRows
    /\ score = NaN
    /\ ratio = 0
    /\ df_in = Unused /\ df = Unused /\ df_twice = Unused
    /\ users_df = Unused /\ recs_df = Unused /\ searches_df = Unused
    /\ train_df = Unused /\ test_df = Unused /\ written = {}

\* df.apply(calculate_engagement_score, axis=1) on one row
CalculateEngagementScore ==
    /\ pc = "label_row"
    /\ score' = calculate_engagement_score(row)
    /\ pc' = "label_scored"
    /\ UNCHANGED <<window_days, metadata, rare_threshold,
                   row, ratio, df_in, df, df_twice, users_df, recs_df,
                   searches_df, train_df, test_df, written>>

NextLabel == CalculateEngagementScore

SpecLabel == InitLabel /\ [][NextLabel]_vars

\* a stage matches when its timestamp is non-null or status equals its name
StageMatches(r, stage, ts) == notna(ts) \/ r.status = stage

\* C4: calculate_engagement_score returns the score of the first matching
\* stage in the order booked (5), clicked (3), viewed (1), rejected (-1),
\* else 0; rejectedAt with viewedAt scores 1, status REJECTED with bookedAt 5.
C4_FirstMatchingStage ==
    pc = "label_scored" =>
        LET booked == StageMatches(row, "BOOKED", row.bookedAt)
            clicked == StageMatches(row, "CLICKED", row.clickedAt)
            viewed == StageMatches(row, "VIEWED", row.viewedAt)
            rejected == StageMatches(row, "REJECTED", row.rejectedAt)
        IN  /\ booked => score = 5
            /\ ~booked /\ clicked => score = 3
            /\ ~booked /\ ~clicked /\ viewed => score = 1
            /\ ~booked /\ ~clicked /\ ~viewed /\ rejected => score = -1
            /\ ~booked /\ ~clicked /\ ~viewed /\ ~rejected => score = 0
            /\ (notna(row.rejectedAt) /\ notna(row.viewedAt) /\ ~booked /\ ~clicked)
                   => score = 1
            /\ (row.status = "REJECTED" /\ notna(row.bookedAt)) => score = 5

\* a scored row with rejectedAt and viewedAt set and no later stage
C4_Witness ==
    /\ pc = "label_scored"
    /\ notna(row.rejectedAt) /\ notna(row.viewedAt)
    /\ ~notna(row.bookedAt) /\ ~notna(row.clickedAt)
    /\ row.status = "REJECTED"
    /\ score = 1

-----------------------------------------------------------------------------
(* Specification SpecSample: add_negative_samples on every small labeled  *)
(* DataFrame and every ratio k/RatioDen.                                   *)

\* largest number of rows of the DataFrame handed to add_negative_samples
MaxSampleRows == 4

\* largest ratio numerator: ratios 0, 1/4, ..., MaxRatio/4
MaxRatio == 8

SampleIds == {"r1", "r2"}
SampleScores == {-1, 0, 1, 5}
SampleCols == {"recommendation_id", "engagement_score"}
SampleDtype == [recommendation_id |-> "object", engagement_score |-> "float64"]
SampleRows == [recommendation_id : SampleIds, engagement_score : SampleScores]

InitSample ==
    /\ window_days = DATA_WINDOW_DAYS /\ metadata = Unused
    /\ rare_threshold = RareThreshold
    /\ pc = "sample_input"
    /\ ratio \in 0..MaxRatio
    /\ df_in = Frame(SampleCols, SampleDtype, <<>>)
    /\ df = Unused /\ df_twice = Unused
    /\ row = Unused /\ score = NaN
    /\ users_df = Unused /\ recs_df = Unused /\ searches_df = Unused
    /\ train_df = Unused /\ test_df = Unused /\ written = {}

\* the caller builds the labeled DataFrame one row at a time
AddSampleRow ==
    /\ pc = "sample_input"
    /\ Len(df_in.rows) < MaxSampleRows
    /\ \E r \in SampleRows : df_in' = [df_in EXCEPT !.rows = Append(@, r)]
    /\ UNCHANGED <<window_days, metadata, rare_threshold,
                   pc, row, score, ratio, df, df_twice, users_df, recs_df,
                   searches_df, train_df, test_df, written>>

\* balanced_df = add_negative_samples(labeled_df, ratio)
AddNegativeSamples ==
    /\ pc = "sample_input"
    /\ \E out \in add_negative_samples(df_in, ratio) : df' = out
    /\ pc' = "sample_done"
    /\ UNCHANGED <<window_days, metadata, rare_threshold,
                   row, score, ratio, df_in, df_twice, users_df, recs_df,
                   searches_df, train_df, test_df, written>>

NextSample == AddSampleRow \/ AddNegativeSamples

SpecSample == InitSample /\ [][NextSample]_vars

\* number of rows of s whose engagement_score satisfies P
NumRows(s, P(_)) == Cardinality({i \in DOMAIN s : P(s[i].engagement_score)})
IsPositive(x) == x > 0
IsNegative(x) == x = 0
Min(a, b) == IF a < b THEN a ELSE b

\* Python's round(): to the nearest integer, a half to the even neighbour
RoundRatio(num, den) ==
    LET q == num \div den
        rem == num % den
    IN  IF 2 * rem > den \/ (2 * rem = den /\ q % 2 = 1) THEN q + 1 ELSE q

\* C5 (as stated): with P positives, N available negatives and any ratio,
\* the output of add_negative_samples has min(N, round(P * ratio)) negatives.
C5_RoundedTarget ==
    pc = "sample_done" =>
        NumRows(df.rows, IsNegative) =
            Min(NumRows(df_in.rows, IsNegative),
                RoundRatio(NumRows(df_in.rows, IsPositive) * ratio, RatioDen))

\* C5 (amended): the output has min(N, T) negatives, where T is P * ratio
\* truncated to an integer (int(), the floor for a ratio >= 0), not rounded.
C5_TruncatedTarget ==
    pc = "sample_done" =>
        \E T \in 0..(MaxSampleRows * MaxRatio + MaxRatio) :
            /\ T * RatioDen <= NumRows(df_in.rows, IsPositive) * ratio
            /\ NumRows(df_in.rows, IsPositive) * ratio < (T + 1) * RatioDen
            /\ NumRows(df.rows, IsNegative) = Min(NumRows(df_in.rows, IsNegative), T)

\* a run where truncation and rounding differ and the target, not the
\* supply, decides: 1 positive, ratio 3/4, 2 negatives available, 0 kept
C5_Witness ==
    /\ pc = "sample_done"
    /\ NumRows(df_in.rows, IsPositive) = 1
    /\ ratio = 3
    /\ NumRows(df_in.rows, IsNegative) = 2
    /\ NumRows(df.rows, IsNegative) = 0

\* C6: the output of add_negative_samples is a reordering of every input
\* row with engagement_score > 0 exactly once plus input rows with
\* engagement_score == 0 taken at most once each; no row scored -1 and no
\* row that was not in the input.
C6_PositivesPlusSampledNegatives ==
    pc = "sample_done" =>
        /\ \A r \in Range(df_in.rows) :
              /\ r.engagement_score > 0 => Count(df.rows, r) = Count(df_in.rows, r)
              /\ r.engagement_score = 0 => Count(df.rows, r) <= Count(df_in.rows, r)
        /\ \A r \in Range(df.rows) :
              /\ r \in Range(df_in.rows)
              /\ r.engagement_score # -1
              /\ r.engagement_score >= 0

\* an output that kept a positive, dropped a rejected row and took one of
\* two equal negatives
C6_Witness ==
    /\ pc = "sample_done"
    /\ \E r \in Range(df_in.rows) : r.engagement_score = -1
    /\ \E r \in Range(df.rows) : r.engagement_score > 0
    /\ \E r \in Range(df.rows) :
          /\ r.engagement_score = 0
          /\ Count(df.rows, r) = 1
          /\ Count(df_in.rows, r) = 2

-----------------------------------------------------------------------------
(* Specification SpecClean: clean_dataset on a balanced DataFrame, then on *)
(* its own output.  The 3-sigma rule cannot remove a row from fewer than   *)
(* 11 rows, so the DataFrames have up to MaxCleanRows rows, built from a   *)
(* few kinds of rows appended in non-decreasing kind order.                *)

\* largest number of rows of the DataFrame handed to clean_dataset
MaxCleanRows == 12

CleanCols ==
    {"user_id", "recommendation_id", "user_climate_pref", "recommendation_score",
     "engagement_score", "budget_max", "item_booking_count", "item_country"}

CleanDtype ==
    [user_id |-> "object", recommendation_id |-> "int64",
     user_climate_pref |-> "float64", recommendation_score |-> "float64",
     engagement_score |-> "float64", budget_max |-> "int64",
     item_booking_count |-> "float64", item_country |-> "object"]

BaseCleanRow(i) ==
    [user_id |-> "u1", recommendation_id |-> i, user_climate_pref |-> 1,
     recommendation_score |-> 1, engagement_score |-> 1, budget_max |-> 0,
     item_booking_count |-> 0, item_country |-> "FR"]

CleanKinds == 1..7

\* the row of kind k appended at position i of the rows so far
CleanRow(k, i, rows) ==
    CASE k = 1 -> BaseCleanRow(i)
      [] k = 2 -> [BaseCleanRow(i) EXCEPT !.budget_max = 1]
      [] k = 3 -> [BaseCleanRow(i) EXCEPT !.budget_max = 100]
      [] k = 4 -> [BaseCleanRow(i) EXCEPT !.user_climate_pref = NaN]
      [] k = 5 -> [BaseCleanRow(i) EXCEPT !.item_country = None,
                                          !.item_booking_count = NaN,
                                          !.user_climate_pref = 2,
                                          !.user_id = "u2"]
      [] k = 6 -> [BaseCleanRow(i) EXCEPT !.item_booking_count = 2,
                                          !.engagement_score = 5]
      [] k = 7 -> \* the pair of the previous row again (a join that fans out)
                  [BaseCleanRow(i) EXCEPT
                      !.user_id = IF i > 1 THEN rows[i - 1].user_id ELSE @,
                      !.recommendation_id =
                          IF i > 1 THEN rows[i - 1].recommendation_id ELSE @,
                      !.item_country = "DE"]

\* the kind of a generated row
KindOf(r) ==
    IF r.item_country = "DE" THEN 7
    ELSE IF r.item_booking_count = 2 THEN 6
    ELSE IF r.item_country = None THEN 5
    ELSE IF r.user_climate_pref = NaN THEN 4
    ELSE IF r.budget_max = 100 THEN 3
    ELSE IF r.budget_max = 1 THEN 2
    ELSE 1

InitClean ==
    /\ window_days = DATA_WINDOW_DAYS /\ metadata = Unused
    /\ rare_threshold = RareThreshold
    /\ pc = "clean_input"
    /\ df_in = Frame(CleanCols, CleanDtype, <<>>)
    /\ df = Unused /\ df_twice = Unused
    /\ row = Unused /\ score = NaN /\ ratio = 0
    /\ users_df = Unused /\ recs_df = Unused /\ searches_df = Unused
    /\ train_df = Unused /\ test_df = Unused /\ written = {}

\* the caller builds the balanced DataFrame one row at a time
AddCleanRow ==
    /\ pc = "clean_input"
    /\ Len(df_in.rows) < MaxCleanRows
    /\ \E k \in CleanKinds :
          /\ df_in.rows # <<>> => k >= KindOf(df_in.rows[Len(df_in.rows)])
          /\ df_in' = [df_in EXCEPT
                          !.rows = Append(@, CleanRow(k, Len(@) + 1, @))]
    /\ UNCHANGED <<window_days, metadata, rare_threshold,
                   pc, row, score, ratio, df, df_twice, users_df, recs_df,
                   searches_df, train_df, test_df, written>>

\* cleaned_df = clean_dataset(balanced_df)
CleanOnce ==
    /\ pc = "clean_input"
    /\ df' = clean_dataset(df_in)
    /\ pc' = "cleaned"
    /\ UNCHANGED <<window_days, metadata, rare_threshold,
                   row, score, ratio, df_in, df_twice, users_df, recs_df,
                   searches_df, train_df, test_df, written>>

\* clean_dataset(cleaned_df): the cleaning stage re-run on its own output
CleanTwice ==
    /\ pc = "cleaned"
    /\ df_twice' = clean_dataset(df)
    /\ pc' = "cleaned_twice"
    /\ UNCHANGED <<window_days, metadata, rare_threshold,
                   row, score, ratio, df_in, df, users_df, recs_df,
                   searches_df, train_df, test_df, written>>

NextClean == AddCleanRow \/ CleanOnce \/ CleanTwice

SpecClean == InitClean /\ [][NextClean]_vars

\* C7: clean_dataset is idempotent: clean_dataset(clean_dataset(D)) has
\* exactly the rows and values of clean_dataset(D).
C7_CleanIdempotent ==
    pc = "cleaned_twice" => df_twice = df

-----------------------------------------------------------------------------
(* Specification SpecDedup: clean_dataset on the short DataFrames, the     *)
(* kinds of rows in any order.                                             *)

\* largest number of rows of a short DataFrame
MaxDedupRows == 4

\* the caller builds the balanced DataFrame one row at a time
AddDedupRow ==
    /\ pc = "clean_input"
    /\ Len(df_in.rows) < MaxDedupRows
    /\ \E k \in CleanKinds :
          df_in' = [df_in EXCEPT !.rows = Append(@, CleanRow(k, Len(@) + 1, @))]
    /\ UNCHANGED <<window_days, metadata, rare_threshold,
                   pc, row, score, ratio, df, df_twice, users_df, recs_df,
                   searches_df, train_df, test_df, written>>

NextDedup == AddDedupRow \/ CleanOnce

SpecDedup == InitClean /\ [][NextDedup]_vars

\* the rows that reach remove_duplicates inside clean_dataset
BeforeDuplicates(d) ==
    clean_validate_vector_ranges(
        remove_outliers(impute_missing_values(remove_missing_required(d)))).rows

\* rows r1 and r2 carry the same (user_id, recommendation_id) pair
SamePair(r1, r2) ==
    r1.user_id = r2.user_id /\ r1.recommendation_id = r2.recommendation_id

\* C13: the output of clean_dataset holds no two rows with the same
\* (user_id, recommendation_id) pair, and of the rows that survive the
\* earlier cleaning sub-stages it keeps, in order, exactly the first
\* occurrence of every pair.
C13_FirstOfEachPairKept ==
    pc = "cleaned" =>
        LET before == BeforeDuplicates(df_in)
        IN  /\ \A i, j \in DOMAIN df.rows : SamePair(df.rows[i], df.rows[j]) => i = j
            /\ df.rows = SelectIdx(before,
                   {i \in DOMAIN before :
                       \A j \in 1..(i - 1) : ~SamePair(before[j], before[i])})

\* a cleaned DataFrame from which a later occurrence of a pair was removed
\* and whose first occurrence stayed
C13_Witness ==
    /\ pc = "cleaned"
    /\ Len(df.rows) < Len(BeforeDuplicates(df_in))
    /\ \E i \in DOMAIN df_in.rows :
          /\ df_in.rows[i].item_country = "DE"
          /\ \A j \in DOMAIN df.rows : df.rows[j].item_country # "DE"
          /\ \E j \in DOMAIN df.rows : SamePair(df.rows[j], df_in.rows[i])

-----------------------------------------------------------------------------
(* Specification SpecAnon: anonymize_dataset on a cleaned DataFrame with   *)
(* and without the optional columns, with up to MaxAnonRows rows so that   *)
(* a value can occur RareThreshold times or more.                          *)

\* largest number of rows of the DataFrame handed to anonymize_dataset
MaxAnonRows == 11

AnonBaseCols == {"recommendation_id", "interaction_id", "engagement_score", "item_country"}

\* columns a cleaned DataFrame may or may not carry
AnonOptionalCols == {"user_id", "user_age", "user_nationality", "email", "dateOfBirth"}

AnonDtype ==
    [recommendation_id |-> "int64", interaction_id |-> "object",
     engagement_score |-> "float64", item_country |-> "object",
     user_id |-> "object", user_age |-> "float64", user_nationality |-> "object"]

AnonKinds == 1..4

\* the row of kind k appended at position i; interaction_id as
\* construct_labels sets it (label_construction.py:112)
AnonRow(k, i) ==
    LET base == [recommendation_id |-> i, interaction_id |-> astype_str(i),
                 engagement_score |-> 1, item_country |-> "FR",
                 user_id |-> "u1", user_age |-> 24, user_nationality |-> "FR"]
    IN  CASE k = 1 -> base
          [] k = 2 -> [base EXCEPT !.user_id = "u2", !.user_age = 66,
                                   !.user_nationality = "JP", !.item_country = "JP"]
          [] k = 3 -> [base EXCEPT !.user_id = "u3", !.user_age = 25,
                                   !.user_nationality = "XX", !.engagement_score = 5]
          [] k = 4 -> [base EXCEPT !.user_id = "u2", !.user_age = 1,
                                   !.user_nationality = None, !.item_country = None]

AnonKindOf(r) ==
    IF r.item_country = None THEN 4
    ELSE IF r.engagement_score = 5 THEN 3
    ELSE IF r.item_country = "JP" THEN 2
    ELSE 1

InitAnon ==
    /\ window_days = DATA_WINDOW_DAYS /\ metadata = Unused
    /\ rare_threshold = RareThreshold
    /\ pc = "anon_input"
    /\ \E opt \in SUBSET AnonOptionalCols :
          df_in = Frame(AnonBaseCols \cup opt,
                        [c \in DOMAIN AnonDtype \cap (AnonBaseCols \cup opt)
                            |-> AnonDtype[c]],
                        <<>>)
    /\ df = Unused /\ df_twice = Unused
    /\ row = Unused /\ score = NaN /\ ratio = 0
    /\ users_df = Unused /\ recs_df = Unused /\ searches_df = Unused
    /\ train_df = Unused /\ test_df = Unused /\ written = {}

\* the caller builds the cleaned DataFrame one row at a time
AddAnonRow ==
    /\ pc = "anon_input"
    /\ Len(df_in.rows) < MaxAnonRows
    /\ \E k \in AnonKinds :
          /\ df_in.rows # <<>> => k >= AnonKindOf(df_in.rows[Len(df_in.rows)])
          /\ df_in' = [df_in EXCEPT !.rows =
                          Append(@, [c \in Tracked(df_in) |->
                                        AnonRow(k, Len(@) + 1)[c]])]
    /\ UNCHANGED <<window_days, metadata, rare_threshold,
                   pc, row, score, ratio, df, df_twice, users_df, recs_df,
                   searches_df, train_df, test_df, written>>

\* final_df = anonymize_dataset(cleaned_df)
Anonymize ==
    /\ pc = "anon_input"
    /\ df' = anonymize_dataset(df_in)
    /\ pc' = "anon_done"
    /\ UNCHANGED <<window_days, metadata, rare_threshold,
                   row, score, ratio, df_in, df_twice, users_df, recs_df,
                   searches_df, train_df, test_df, written>>

NextAnon == AddAnonRow \/ Anonymize

SpecAnon == InitAnon /\ [][NextAnon]_vars

\* C8: in the output of anonymize_dataset two rows have equal user_hash if
\* and only if they had equal raw user_id in the input.
C8_HashInjective ==
    (pc = "anon_done" /\ "user_id" \in df_in.cols) =>
        \A i, j \in DOMAIN df.rows :
            (df.rows[i].user_hash = df.rows[j].user_hash)
                <=> (df_in.rows[i].user_id = df_in.rows[j].user_id)

\* C9: in the output of anonymize_dataset every row's interaction_id is the
\* string form of its original recommendation identifier, and rows with
\* distinct (user_id, recommendation_id) pairs in the input have distinct
\* (user_hash, interaction_id) pairs.
C9_InteractionIdentity ==
    pc = "anon_done" =>
        /\ \A i \in DOMAIN df.rows :
              df.rows[i].interaction_id = astype_str(df_in.rows[i].recommendation_id)
        /\ "user_id" \in df_in.cols =>
              \A i, j \in DOMAIN df.rows :
                  (\/ df_in.rows[i].user_id # df_in.rows[j].user_id
                   \/ df_in.rows[i].recommendation_id # df_in.rows[j].recommendation_id)
                  => (\/ df.rows[i].user_hash # df.rows[j].user_hash
                      \/ df.rows[i].interaction_id # df.rows[j].interaction_id)

\* C10: the output of anonymize_dataset contains none of the PII columns
\* and contains user_hash whenever the input had a user_id column.
C10_NoPiiAndHashKept ==
    pc = "anon_done" =>
        /\ df.cols \cap {"user_id", "email", "firstName", "lastName", "phoneNumber",
                         "phone", "dateOfBirth", "avatar", "recommendation_id"} = {}
        /\ \A i \in DOMAIN df.rows :
              "user_id" \notin DOMAIN df.rows[i] /\ "recommendation_id" \notin DOMAIN df.rows[i]
        /\ "user_id" \in df_in.cols =>
              /\ "user_hash" \in df.cols
              /\ \A i \in DOMAIN df.rows : "user_hash" \in DOMAIN df.rows[i]

\* an anonymized DataFrame whose input carried user_id, email and
\* dateOfBirth and had rows
C10_Witness ==
    /\ pc = "anon_done"
    /\ {"user_id", "email", "dateOfBirth", "recommendation_id"} \subseteq df_in.cols
    /\ Len(df_in.rows) >= 2
    /\ Len(df.rows) = Len(df_in.rows)
    /\ "user_hash" \in df.cols

-----------------------------------------------------------------------------
(* Specification Spec: run_etl_pipeline, from the three extractions to the *)
(* validation of the train partition.  The extraction queries fix the      *)
(* column names; the rows they return are drawn from the sets below.  The  *)
(* columns that are not tracked are taken to hold nulls or hashable        *)
(* scalars, so that they raise nothing and change no tracked value.        *)

\* largest number of recommendation rows the extraction returns
MaxRecs == 2

\* a vector cell as the database driver returns it: a list of eight equal
\* components
Vec(isFloat, v) ==
    [type |-> "list", float |-> isFloat, vals |-> <<v, v, v, v, v, v, v, v>>]

UserDtype ==
    [user_id |-> "object", user_vector |-> "object",
     dateOfBirth |-> "datetime64", nationality |-> "object",
     globalBudgetRange |-> "object"]

\* the user rows the users query can return (the tracked columns)
UserRows ==
    <<[user_id |-> "u1", user_vector |-> Vec(TRUE, 1), dateOfBirth |-> 24,
       nationality |-> "FR", globalBudgetRange |-> BudgetRange(3)],
      [user_id |-> "u2", user_vector |-> NoVector, dateOfBirth |-> NaN,
       nationality |-> "JP", globalBudgetRange |-> NoBudgetRange],
      \* a second row for u1: the joins of the query fan out
      [user_id |-> "u1", user_vector |-> Vec(TRUE, 1), dateOfBirth |-> 66,
       nationality |-> "XX", globalBudgetRange |-> BudgetRange(3)]>>

UsersInputs ==
    {<<>>, <<UserRows[1]>>, <<UserRows[2]>>, <<UserRows[1], UserRows[2]>>,
     <<UserRows[1], UserRows[3]>>}

RecDtype ==
    [recommendation_id |-> "int64", user_id |-> "object", status |-> "object",
     viewedAt |-> "datetime64", clickedAt |-> "datetime64",
     bookedAt |-> "datetime64", rejectedAt |-> "datetime64",
     recommendation_score |-> "float64", user_vector |-> "object",
     item_booking_count |-> "int64"]

RecKinds == 1..7

\* the recommendation row of kind k with identifier i (the tracked columns)
RecRow(k, i) ==
    LET base == [recommendation_id |-> i, user_id |-> "u1", status |-> "GENERATED",
                 viewedAt |-> NaN, clickedAt |-> NaN, bookedAt |-> NaN,
                 rejectedAt |-> NaN, recommendation_score |-> 1,
                 user_vector |-> Vec(TRUE, 1), item_booking_count |-> 0]
    IN  CASE k = 1 -> base
          [] k = 2 -> [base EXCEPT !.status = "VIEWED", !.viewedAt = 2]
          [] k = 3 -> [base EXCEPT !.user_id = "u2", !.status = "BOOKED",
                                   !.viewedAt = 2, !.bookedAt = 3,
                                   !.user_vector = Vec(TRUE, 2)]
          [] k = 4 -> [base EXCEPT !.user_id = "u2", !.status = "REJECTED",
                                   !.rejectedAt = 2, !.user_vector = NoVector]
          [] k = 5 -> [base EXCEPT !.status = "VIEWED", !.viewedAt = 2,
                                   !.recommendation_score = NaN]
          [] k = 6 -> [base EXCEPT !.user_id = "u3", !.status = "CLICKED",
                                   !.user_vector = Vec(FALSE, 1),
                                   !.item_booking_count = NaN]
          [] k = 7 -> [base EXCEPT !.user_id = "u2", !.status = "BOOKED",
                                   !.bookedAt = 3, !.user_vector = NoVector]

RECURSIVE RecSeqs(_)
\* the sequences of n recommendation rows, identifiers 1..n
RecSeqs(n) ==
    IF n = 0 THEN {<<>>}
    ELSE {Append(front, RecRow(k, n)) : front \in RecSeqs(n - 1), k \in RecKinds}

RecsInputs == UNION {RecSeqs(n) : n \in 0..MaxRecs}

SearchesInputs == {<<>>, <<[user_id |-> "u1"]>>}

Init ==
    /\ window_days = DATA_WINDOW_DAYS /\ metadata = Unused
    /\ rare_threshold = RareThreshold
    /\ pc = "step1"
    /\ users_df = Unused /\ recs_df = Unused /\ searches_df = Unused
    /\ df = Unused /\ train_df = Unused /\ test_df = Unused
    /\ written = {}
    /\ row = Unused /\ score = NaN /\ ratio = NEGATIVE_SAMPLE_RATIO * RatioDen
    /\ df_in = Unused /\ df_twice = Unused

\* [1/10] users_df = extract_user_data(window_days); users_df.to_parquet
ExtractUserData ==
    /\ pc = "step1"
    /\ \E rows \in UsersInputs : users_df' = Frame(UserColumns, UserDtype, rows)
    /\ written' = written \cup {"raw/users.parquet"}
    /\ pc' = "step2"
    /\ UNCHANGED <<window_days, metadata, rare_threshold,
                   row, score, ratio, df_in, df, df_twice, recs_df, searches_df,
                   train_df, test_df>>

\* [2/10] recs_df = extract_recommendations(window_days); recs_df.to_parquet
ExtractRecommendations ==
    /\ pc = "step2"
    /\ \E rows \in RecsInputs :
          recs_df' = Frame(RecommendationColumns,
                           [RecDtype EXCEPT !.item_booking_count =
                               IntOrFloat(Column(rows, "item_booking_count"))],
                           rows)
    /\ written' = written \cup {"raw/recommendations.parquet"}
    /\ pc' = "step3"
    /\ UNCHANGED <<window_days, metadata, rare_threshold,
                   row, score, ratio, df_in, df, df_twice, users_df, searches_df,
                   train_df, test_df>>

\* [3/10] searches_df = extract_voyage_data(window_days); searches_df.to_parquet
ExtractVoyageData ==
    /\ pc = "step3"
    /\ \E rows \in SearchesInputs :
          searches_df' = Frame(SearchColumns, [user_id |-> "object"], rows)
    /\ written' = written \cup {"raw/searches.parquet"}
    /\ pc' = "step4"
    /\ UNCHANGED <<window_days, metadata, rare_threshold,
                   row, score, ratio, df_in, df, df_twice, users_df, recs_df,
                   train_df, test_df>>

\* [4/10] merged_df = merge_datasets(); merged_df.to_parquet
MergeDatasets ==
    /\ pc = "step4"
    /\ df' = merge_datasets(users_df, recs_df, searches_df)
    /\ written' = written \cup {"processed/merged.parquet"}
    /\ pc' = "step5"
    /\ UNCHANGED <<window_days, metadata, rare_threshold,
                   row, score, ratio, df_in, df_twice, users_df, recs_df,
                   searches_df, train_df, test_df>>

\* [5/10] featured_df = engineer_features(merged_df); featured_df.to_parquet
EngineerFeatures ==
    /\ pc = "step5"
    /\ df' = engineer_features(df)
    /\ written' = written \cup {"processed/featured.parquet"}
    /\ pc' = "step6"
    /\ UNCHANGED <<window_days, metadata, rare_threshold,
                   row, score, ratio, df_in, df_twice, users_df, recs_df,
                   searches_df, train_df, test_df>>

\* [6/10] labeled_df = construct_labels(featured_df); labeled_df.to_parquet
ConstructLabels ==
    /\ pc = "step6"
    /\ df' = construct_labels(df)
    /\ written' = written \cup {"processed/labeled.parquet"}
    /\ pc' = "step7"
    /\ UNCHANGED <<window_days, metadata, rare_threshold,
                   row, score, ratio, df_in, df_twice, users_df, recs_df,
                   searches_df, train_df, test_df>>

\* [7/10] balanced_df = add_negative_samples(labeled_df); balanced_df.to_parquet
BalanceDataset ==
    /\ pc = "step7"
    /\ \E out \in add_negative_samples(df, ratio) : df' = out
    /\ written' = written \cup {"processed/balanced.parquet"}
    /\ pc' = "step8"
    /\ UNCHANGED <<window_days, metadata, rare_threshold,
                   row, score, ratio, df_in, df_twice, users_df, recs_df,
                   searches_df, train_df, test_df>>

\* [8/10] cleaned_df = clean_dataset(balanced_df); cleaned_df.to_parquet
CleanDataset ==
    /\ pc = "step8"
    /\ df' = clean_dataset(df)
    /\ IF to_parquet_raises(clean_dataset(df))
       THEN pc' = "raised_to_parquet" /\ UNCHANGED written
       ELSE pc' = "step9" /\ written' = written \cup {"processed/cleaned.parquet"}
    /\ UNCHANGED <<window_days, metadata, rare_threshold,
                   row, score, ratio, df_in, df_twice, users_df, recs_df,
                   searches_df, train_df, test_df>>

\* a step 9 that writes its snapshot although anonymize_dataset raised
AnonymizeDataset_Mut ==
    /\ pc = "step9"
    /\ IF value_counts_raises(df)
       THEN /\ pc' = "raised_anonymize_dataset"
            /\ written' = written \cup {"processed/final.parquet"}
            /\ UNCHANGED df
       ELSE /\ df' = anonymize_dataset(df)
            /\ written' = written \cup {"processed/final.parquet"}
            /\ pc' = "step10"
    /\ UNCHANGED <<window_days, metadata, rare_threshold,
                   row, score, ratio, df_in, df_twice, users_df, recs_df,
                   searches_df, train_df, test_df>>

\* [9/10] final_df = anonymize_dataset(cleaned_df); final_df.to_parquet
AnonymizeDataset ==
    /\ pc = "step9"
    /\ IF value_counts_raises(df)
       THEN pc' = "raised_anonymize_dataset" /\ UNCHANGED <<df, written>>
       ELSE /\ df' = anonymize_dataset(df)
            /\ written' = written \cup {"processed/final.parquet"}
            /\ pc' = "step10"
    /\ UNCHANGED <<window_days, metadata, rare_threshold,
                   row, score, ratio, df_in, df_twice, users_df, recs_df,
                   searches_df, train_df, test_df>>

\* [10/10] train_df, test_df = split_and_export(final_df, version): the
\* split, then the two snapshots and the sample CSV
SplitAndExport ==
    /\ pc = "step10"
    /\ IF split_raises(df.rows)
       THEN /\ pc' = "raised_split_and_export"
            /\ UNCHANGED <<train_df, test_df, written>>
       ELSE /\ \E pair \in train_test_split(df) :
                  /\ train_df' = pair[1]
                  /\ test_df' = pair[2]
            /\ written' = written \cup {"datasets/train.parquet",
                                        "datasets/test.parquet",
                                        "datasets/train_sample.csv"}
            /\ pc' = "validate_train"
    /\ UNCHANGED <<window_days, metadata, rare_threshold,
                   row, score, ratio, df_in, df, df_twice, users_df, recs_df,
                   searches_df>>

\* validate_dataset(train_df); on the columns the extraction produces this
\* call raises, so the statements after it are not part of this
\* specification
ValidateTrain ==
    /\ pc = "validate_train"
    /\ IF validate_dataset_raises(train_df)
       THEN /\ pc' = "raised_validate_dataset"
            /\ UNCHANGED train_df
       ELSE /\ pc' = "validate_test"
            /\ train_df' = validate_vector_ranges(train_df)
    /\ UNCHANGED <<window_days, metadata, rare_threshold,
                   row, score, ratio, df_in, df, df_twice, users_df, recs_df,
                   searches_df, test_df, written>>

\* a validation of the test partition whose failure is ignored
ValidateTest_Mut ==
    /\ pc = "validate_test"
    /\ pc' = "generate_metadata"
    /\ test_df' = validate_vector_ranges(test_df)
    /\ UNCHANGED <<window_days, metadata, rare_threshold,
                   row, score, ratio, df_in, df, df_twice, users_df, recs_df,
                   searches_df, train_df, written>>

\* validate_dataset(test_df)
ValidateTest ==
    /\ pc = "validate_test"
    /\ IF validate_dataset_raises(test_df)
       THEN /\ pc' = "raised_validate_dataset"
            /\ UNCHANGED test_df
       ELSE /\ pc' = "generate_metadata"
            /\ test_df' = validate_vector_ranges(test_df)
    /\ UNCHANGED <<window_days, metadata, rare_threshold,
                   row, score, ratio, df_in, df, df_twice, users_df, recs_df,
                   searches_df, train_df, written>>

\* generate_metadata(train_df, test_df, version): the row and column counts
\* and the extraction window of the metadata document
generate_metadata(train, test) ==
    [dataset |-> [train_rows |-> Len(train.rows),
                  test_rows |-> Len(test.rows),
                  total_rows |-> Len(train.rows) + Len(test.rows),
                  num_features |-> Cardinality(train.cols)],
     extraction |-> [data_window_days |-> DATA_WINDOW_DAYS]]

\* metadata = generate_metadata(train_df, test_df, version)
GenerateMetadata ==
    /\ pc = "generate_metadata"
    /\ metadata' = generate_metadata(train_df, test_df)
    /\ written' = written \cup {"datasets/metadata.json"}
    /\ pc' = "generate_quality_report"
    /\ UNCHANGED <<window_days, rare_threshold, row, score, ratio, df_in, df, df_twice, users_df, recs_df,
                   searches_df, train_df, test_df>>

\* generate_quality_report(train_df, test_df, version)
GenerateQualityReport ==
    /\ pc = "generate_quality_report"
    /\ written' = written \cup {"datasets/distributions.png",
                                "datasets/quality_report.html"}
    /\ pc' = "completed"
    /\ UNCHANGED <<window_days, metadata, rare_threshold,
                   row, score, ratio, df_in, df, df_twice, users_df, recs_df,
                   searches_df, train_df, test_df>>

Next ==
    \/ ExtractUserData
    \/ ExtractRecommendations
    \/ ExtractVoyageData
    \/ MergeDatasets
    \/ EngineerFeatures
    \/ ConstructLabels
    \/ BalanceDataset
    \/ CleanDataset
    \/ AnonymizeDataset
    \/ SplitAndExport
    \/ ValidateTrain

Spec == Init /\ [][Next]_vars

\* the snapshots split_and_export writes
ExportSnapshots ==
    {"datasets/train.parquet", "datasets/test.parquet", "datasets/train_sample.csv"}

\* C1: no train/test snapshot is written for a run in which
\* validate_dataset fails: a validation failure leaves no export artifact.
C1_NoSnapshotOnInvalidRun ==
    pc = "raised_validate_dataset" => written \cap ExportSnapshots = {}

\* C2: the dataset handed to Export and validation contains every column
\* of REQUIRED_COLUMNS with no null value.
C2_RequiredColumnsPresent ==
    pc = "step10" =>
        /\ REQUIRED_COLUMNS \subseteq df.cols
        /\ \A c \in REQUIRED_COLUMNS : \A i \in DOMAIN df.rows :
              ~isnull(df, c, df.rows[i][c])

\* the labels of every row of a dataset are legal and consistent
LabelsConsistent(d) ==
    \A i \in DOMAIN d.rows :
        /\ d.rows[i].engagement_score \in {-1, 0, 1, 3, 5}
        /\ d.rows[i].booking_probability \in {0, 1}
        /\ d.rows[i].booking_probability = 1 <=> d.rows[i].engagement_score = 5

\* C3: in every dataset from Label Construction on (labeled, balanced,
\* cleaned, final, train, test) engagement_score is one of -1, 0, 1, 3, 5,
\* booking_probability is 0 or 1, and it is 1 iff engagement_score is 5.
C3_LabelsConsistent ==
    /\ pc \in {"step7", "step8", "step9", "raised_to_parquet", "step10",
                "raised_anonymize_dataset", "raised_split_and_export",
                "validate_train", "raised_validate_dataset"}
          => LabelsConsistent(df)
    /\ pc \in {"validate_train", "raised_validate_dataset"}
          => LabelsConsistent(train_df) /\ LabelsConsistent(test_df)

\* a run that exported a booked row to each partition
C3_Witness ==
    /\ pc = "raised_validate_dataset"
    /\ \E i \in DOMAIN train_df.rows :
          train_df.rows[i].engagement_score = 5 /\ train_df.rows[i].booking_probability = 1
    /\ \E i \in DOMAIN test_df.rows :
          test_df.rows[i].engagement_score = 5 /\ test_df.rows[i].booking_probability = 1

\* C11: in the final dataset produced by the Anonymization stage of the
\* pipeline, nationality is generalized: the column user_region exists and
\* no column holding the raw nationality (extracted as nationality) remains.
C11_NationalityGeneralized ==
    pc = "step10" =>
        /\ "user_region" \in df.cols
        /\ {"nationality", "user_nationality"} \cap df.cols = {}

\* the positions of run_etl_pipeline at which a step has raised
RaisedStates ==
    {"raised_to_parquet", "raised_anonymize_dataset", "raised_split_and_export",
     "raised_validate_dataset"}

\* the positions that can follow position p
StepSuccessors(p) ==
    CASE p = "step1" -> {"step2"}
      [] p = "step2" -> {"step3"}
      [] p = "step3" -> {"step4"}
      [] p = "step4" -> {"step5"}
      [] p = "step5" -> {"step6"}
      [] p = "step6" -> {"step7"}
      [] p = "step7" -> {"step8"}
      [] p = "step8" -> {"step9", "raised_to_parquet"}
      [] p = "step9" -> {"step10", "raised_anonymize_dataset"}
      [] p = "step10" -> {"validate_train", "raised_split_and_export"}
      [] p = "validate_train" -> {"validate_test", "raised_validate_dataset"}
      [] OTHER -> {}

\* the snapshots the step at position p writes when it succeeds
StepSnapshots(p) ==
    CASE p = "step1" -> {"raw/users.parquet"}
      [] p = "step2" -> {"raw/recommendations.parquet"}
      [] p = "step3" -> {"raw/searches.parquet"}
      [] p = "step4" -> {"processed/merged.parquet"}
      [] p = "step5" -> {"processed/featured.parquet"}
      [] p = "step6" -> {"processed/labeled.parquet"}
      [] p = "step7" -> {"processed/balanced.parquet"}
      [] p = "step8" -> {"processed/cleaned.parquet"}
      [] p = "step9" -> {"processed/final.parquet"}
      [] p = "step10" -> ExportSnapshots
      [] OTHER -> {}

\* C14: run_etl_pipeline runs its ten steps in the fixed order; a step
\* writes its own snapshot and only when it has not raised; once a step has
\* raised nothing runs and nothing more is written.
C14_SequentialSteps ==
    [][/\ pc \notin RaisedStates
       /\ pc' \in StepSuccessors(pc)
       /\ written' = IF pc' \in RaisedStates THEN written
                     ELSE written \cup StepSnapshots(pc)]_vars

\* a run in which anonymize_dataset raised after cleaned.parquet was
\* written: final.parquet and the export files do not exist
C14_Witness ==
    /\ pc = "raised_anonymize_dataset"
    /\ "processed/cleaned.parquet" \in written
    /\ "processed/final.parquet" \notin written
    /\ written \cap ExportSnapshots = {}

\* the (user_id, recommendation_id) identities of the rows of d, in order
Ids(d) == [i \in DOMAIN d.rows |-> <<d.rows[i].user_id, d.rows[i].recommendation_id>>]

\* the number of positions of the sequence s that hold x
Times(s, x) == Cardinality({i \in DOMAIN s : s[i] = x})

\* every element of a occurs in b at least as often as in a
SubBag(a, b) == \A i \in DOMAIN a : Times(a, a[i]) <= Times(b, a[i])

\* C28: no stage after Merge adds a row or changes a row's identity:
\* feature engineering and label construction return exactly the rows they
\* receive, negative sampling and cleaning a subset of them (by user_id and
\* recommendation_id), anonymization one row per input row, and train and
\* test together hold exactly the rows of the final dataset.
C28_RowsPreserved ==
    [][/\ (pc \in {"step5", "step6"} /\ pc' \in {"step6", "step7"})
            => Ids(df') = Ids(df)
       /\ (pc \in {"step7", "step8"} /\ pc' \in {"step8", "step9"})
            => SubBag(Ids(df'), Ids(df))
       /\ (pc = "step9" /\ pc' = "step10")
            => Len(df'.rows) = Len(df.rows)
       /\ (pc = "step10" /\ pc' = "validate_train")
            => /\ SubBag(train_df'.rows \o test_df'.rows, df.rows)
               /\ SubBag(df.rows, train_df'.rows \o test_df'.rows)]_vars

\* a run whose two recommendations pass every stage and are split
C28_Witness ==
    /\ pc = "validate_train"
    /\ Len(recs_df.rows) = 2
    /\ Len(df.rows) = 2
    /\ Len(train_df.rows) + Len(test_df.rows) = 2

\* C29: in every dataset from label construction to the final anonymized
\* dataset each row's interaction_type is the category of its
\* engagement_score (5 BOOKED, 3 CLICKED, 1 VIEWED, -1 REJECTED,
\* 0 NOT_VIEWED).
C29_InteractionTypeMatchesScore ==
    pc \in {"step7", "step8", "step9", "step10"} =>
        \A i \in DOMAIN df.rows :
            df.rows[i].interaction_type =
                CASE df.rows[i].engagement_score = 5 -> "BOOKED"
                  [] df.rows[i].engagement_score = 3 -> "CLICKED"
                  [] df.rows[i].engagement_score = 1 -> "VIEWED"
                  [] df.rows[i].engagement_score = -1 -> "REJECTED"
                  [] df.rows[i].engagement_score = 0 -> "NOT_VIEWED"
                  [] OTHER -> "?"

\* C30: for every row that reaches the final dataset, user_age_group is the
\* age band of the user_age that feature engineering computed for that row
\* (an age in 18..100): label construction, negative sampling and cleaning
\* leave the user_age of a row as it is, and anonymization bins it.
C30_AgeGroupOfComputedAge ==
    [][/\ (pc \in {"step6", "step7", "step8"} /\ pc' \in {"step7", "step8", "step9"})
            => \A i \in DOMAIN df'.rows : \A j \in DOMAIN df.rows :
                  (/\ Ids(df')[i] = Ids(df)[j]
                   /\ Times(Ids(df), Ids(df)[j]) = 1
                   /\ df.rows[j].user_age # NaN)
                      => df'.rows[i].user_age = df.rows[j].user_age
       /\ (pc = "step9" /\ pc' = "step10")
            => \A i \in DOMAIN df'.rows :
                  df'.rows[i].user_age_group = cut_age(df.rows[i].user_age)]_vars

-----------------------------------------------------------------------------
(* Specification SpecExport: steps 8 to 10 of run_etl_pipeline, through    *)
(* validation, metadata and report, on a balanced DataFrame that carries   *)
(* the columns REQUIRED_COLUMNS asks for (item_destination_id included).   *)

\* largest number of rows of the balanced DataFrame
MaxExportRows == 3

ExportCols ==
    {"user_id", "recommendation_id", "user_climate_pref", "user_culture_pref",
     "user_budget_level", "user_activity_level", "item_destination_id",
     "recommendation_score", "engagement_score", "booking_probability"}

ExportDtype ==
    [user_id |-> "object", recommendation_id |-> "int64",
     user_climate_pref |-> "float64", user_culture_pref |-> "float64",
     user_budget_level |-> "int64", user_activity_level |-> "float64",
     item_destination_id |-> "object", recommendation_score |-> "float64",
     engagement_score |-> "float64", booking_probability |-> "int64",
     interaction_type |-> "object"]

ExportKinds == 1..5

\* the row of kind k at position i
ExportRow(k, i) ==
    LET base == [user_id |-> "u1", recommendation_id |-> i, user_climate_pref |-> 1,
                 user_culture_pref |-> 0, user_budget_level |-> 1,
                 user_activity_level |-> 1, item_destination_id |-> "d1",
                 recommendation_score |-> 1, engagement_score |-> 5,
                 booking_probability |-> 1, interaction_type |-> "BOOKED"]
    IN  CASE k = 1 -> base
          [] k = 2 -> [base EXCEPT !.user_climate_pref = 2, !.user_budget_level = 2]
          [] k = 3 -> [base EXCEPT !.booking_probability = 2]
          [] k = 4 -> [base EXCEPT !.engagement_score = 1, !.booking_probability = 0,
                                   !.interaction_type = "VIEWED"]
          [] k = 5 -> [base EXCEPT !.user_budget_level = NaN]

RECURSIVE ExportRowSeqs(_)
\* the sequences of n rows, recommendation identifiers 1..n
ExportRowSeqs(n) ==
    IF n = 0 THEN {<<>>}
    ELSE {Append(front, ExportRow(k, n)) :
             front \in ExportRowSeqs(n - 1), k \in ExportKinds}

\* the balanced DataFrame with the columns cs and the rows (restricted to cs)
ExportFrame(cs, rows) ==
    Frame(cs,
          [c \in cs |-> IF c = "user_budget_level"
                        THEN IntOrFloat(Column(rows, c)) ELSE ExportDtype[c]],
          [i \in DOMAIN rows |-> [c \in cs |-> rows[i][c]]])

\* the values of --window-days: the default and the one of the usage text
WindowDaysInputs == {DATA_WINDOW_DAYS, 180}

InitExport ==
    /\ window_days \in WindowDaysInputs /\ metadata = Unused
    /\ rare_threshold = RareThreshold
    /\ pc = "step8"
    /\ \E opt \in SUBSET {"interaction_type"} :
       \E n \in 0..MaxExportRows :
       \E rows \in ExportRowSeqs(n) :
          df = ExportFrame(ExportCols \cup opt, rows)
    /\ written = UNION {StepSnapshots(p) :
                           p \in {"step1", "step2", "step3", "step4", "step5",
                                  "step6", "step7"}}
    /\ train_df = Unused /\ test_df = Unused
    /\ users_df = Unused /\ recs_df = Unused /\ searches_df = Unused
    /\ row = Unused /\ score = NaN /\ ratio = NEGATIVE_SAMPLE_RATIO * RatioDen
    /\ df_in = Unused /\ df_twice = Unused

NextExport ==
    \/ CleanDataset
    \/ AnonymizeDataset
    \/ SplitAndExport
    \/ ValidateTrain
    \/ ValidateTest
    \/ GenerateMetadata
    \/ GenerateQualityReport

SpecExport == InitExport /\ [][NextExport]_vars

\* every non-null value of the _pref and _level columns of d is in [0,1]
VectorColumnsInRange(d) ==
    \A i \in DOMAIN d.rows :
        \A c \in Tracked(d) \cap (ColsContainingPref \cup ColsContainingLevel) :
            d.rows[i][c] # NaN => (0 <= d.rows[i][c] /\ d.rows[i][c] <= 1)

ReportArtifacts ==
    {"datasets/metadata.json", "datasets/distributions.png",
     "datasets/quality_report.html"}

\* C15: generate_metadata and generate_quality_report run only after
\* validate_dataset has succeeded on the train and on the test partition;
\* when a validation raises, neither the metadata nor the report exists.
C15_ReportOnlyAfterValidation ==
    /\ pc \in {"generate_metadata", "generate_quality_report", "completed"}
          => (~validate_dataset_raises(train_df) /\ ~validate_dataset_raises(test_df))
    /\ written \cap ReportArtifacts # {}
          => pc \in {"generate_quality_report", "completed"}
    /\ pc \in RaisedStates => written \cap ReportArtifacts = {}

\* a run whose test partition failed validation after the train partition
\* had passed it: no metadata, no report
C15_Witness ==
    /\ pc = "raised_validate_dataset"
    /\ ~validate_dataset_raises(train_df)
    /\ validate_dataset_raises(test_df)
    /\ written \cap ReportArtifacts = {}

-----------------------------------------------------------------------------
(* Specification SpecAge: bin_age on a one-row DataFrame, for every whole  *)
(* age up to AgeLimit and for a missing age.                               *)

\* largest age handed to bin_age
AgeLimit == 101

InitAge ==
    /\ window_days = DATA_WINDOW_DAYS /\ metadata = Unused
    /\ rare_threshold = RareThreshold
    /\ pc = "age_input"
    /\ \/ \E a \in (0..AgeLimit) \cup {NaN} :
             df_in = Frame({"user_hash", "user_age"},
                           [user_hash |-> "object", user_age |-> IntOrFloat(<<a>>)],
                           <<[user_hash |-> "h1", user_age |-> a]>>)
       \/ df_in = Frame({"user_hash"}, [user_hash |-> "object"],
                        <<[user_hash |-> "h1"]>>)
    /\ df = Unused /\ df_twice = Unused
    /\ row = Unused /\ score = NaN /\ ratio = 0
    /\ users_df = Unused /\ recs_df = Unused /\ searches_df = Unused
    /\ train_df = Unused /\ test_df = Unused /\ written = {}

\* df = bin_age(df)
BinAge ==
    /\ pc = "age_input"
    /\ df' = bin_age(df_in)
    /\ pc' = "age_binned"
    /\ UNCHANGED <<window_days, metadata, rare_threshold,
                   row, score, ratio, df_in, df_twice, users_df, recs_df,
                   searches_df, train_df, test_df, written>>

NextAge == BinAge

SpecAge == InitAge /\ [][NextAge]_vars

\* C18: bin_age maps every age in [0,100] to one label: up to 25 gives
\* '18-25', 26..35 '26-35', 36..50 '36-50', 51..65 '51-65', 66..100 '65+';
\* the raw user_age column is absent from its output.
C18_AgeBins ==
    (pc = "age_binned" /\ "user_age" \in df_in.cols) =>
        LET a == df_in.rows[1].user_age
        IN  /\ "user_age" \notin df.cols
            /\ "user_age" \notin DOMAIN df.rows[1]
            /\ "user_age_group" \in df.cols
            /\ (a # NaN /\ a <= 100) =>
                  df.rows[1].user_age_group =
                      IF a <= 25 THEN "18-25"
                      ELSE IF a <= 35 THEN "26-35"
                      ELSE IF a <= 50 THEN "36-50"
                      ELSE IF a <= 65 THEN "51-65"
                      ELSE "65+"

\* age 25, on a bin boundary, was binned
C18_Witness ==
    /\ pc = "age_binned"
    /\ "user_age" \in df_in.cols
    /\ df_in.rows[1].user_age = 25
    /\ df.rows[1].user_age_group = "18-25"

-----------------------------------------------------------------------------
(* Specification SpecSplit: the stratified split of split_and_export on    *)
(* DataFrames of a thousand rows and more.  A DataFrame is kept by its     *)
(* engagement_score.value_counts(): the number of rows of every class.     *)

\* the numbers of rows of the final DataFrame
MinSplitRows == 1000
MaxSplitRows == 1003

\* the classes, in the order of their first row
SplitClasses == <<0, 1, 5>>

\* the sum of the counts of the classes
TotalCount(counts) == SumSeq([k \in DOMAIN SplitClasses |-> counts[SplitClasses[k]]])

\* train_test_split raises ValueError, on the counts of a DataFrame (see
\* split_raises)
split_counts_raises(counts) ==
    LET n == TotalCount(counts)
        n_test == n_test_of(n)
        n_train == n - n_test
        n_classes == Cardinality({k \in DOMAIN counts : counts[k] > 0})
    IN  \/ n = 0
        \/ n_train = 0
        \/ \E k \in DOMAIN counts : counts[k] = 1
        \/ n_train < n_classes
        \/ n_test < n_classes

\* a split without stratify and without shuffle: the train part is the head
\* of the DataFrame, its rows sorted by class
StratifiedTrainCounts_Mut(counts) ==
    LET n == TotalCount(counts)
        n_train == n - n_test_of(n)
        before(j) == SumSeq([k \in 1..(j - 1) |-> counts[SplitClasses[k]]])
        take(j) == IF n_train - before(j) <= 0 THEN 0
                   ELSE IF n_train - before(j) >= counts[SplitClasses[j]]
                        THEN counts[SplitClasses[j]]
                   ELSE n_train - before(j)
    IN  {[c \in DOMAIN counts |-> take(ColumnPos(SplitClasses, c))]}

\* the train counts a stratified split can produce (see TrainIndexSets):
\* every class contributes the floor of its share of the n_train rows, the
\* rows left over go one each to classes whose share is not whole
StratifiedTrainCounts(counts) ==
    LET n == TotalCount(counts)
        n_train == n - n_test_of(n)
        floored(c) == (counts[c] * n_train) \div n
        whole(c) == (counts[c] * n_train) % n = 0
        alloc(up) == [c \in DOMAIN counts |-> floored(c) + (IF c \in up THEN 1 ELSE 0)]
    IN  {alloc(up) : up \in {u \in SUBSET {c \in DOMAIN counts : ~whole(c)} :
                                TotalCount(alloc(u)) = n_train}}

\* the numbers of rows the classes 1 and 5 may have; class 0 has the rest
MinorityCounts == {0, 1, 2, 3, 7, 12, 101, 250, 333}

InitSplit ==
    /\ window_days = DATA_WINDOW_DAYS /\ metadata = Unused
    /\ rare_threshold = RareThreshold
    /\ pc = "split_input"
    /\ \E n \in MinSplitRows..MaxSplitRows :
       \E c1 \in MinorityCounts : \E c5 \in MinorityCounts :
          df = (0 :> (n - c1 - c5)) @@ (1 :> c1) @@ (5 :> c5)
    /\ train_df = Unused /\ test_df = Unused
    /\ df_in = Unused /\ df_twice = Unused
    /\ row = Unused /\ score = NaN /\ ratio = 0
    /\ users_df = Unused /\ recs_df = Unused /\ searches_df = Unused
    /\ written = {}

\* train_df, test_df = train_test_split(df, test_size=TEST_SIZE,
\* stratify=df['engagement_score'], random_state=RANDOM_SEED)
StratifiedSplit ==
    /\ pc = "split_input"
    /\ IF split_counts_raises(df)
       THEN /\ pc' = "raised_split_and_export"
            /\ UNCHANGED <<train_df, test_df>>
       ELSE /\ \E t \in StratifiedTrainCounts(df) :
                  /\ train_df' = t
                  /\ test_df' = [c \in DOMAIN df |-> df[c] - t[c]]
            /\ pc' = "split_done"
    /\ UNCHANGED <<window_days, metadata, rare_threshold,
                   row, score, ratio, df_in, df, df_twice, users_df, recs_df,
                   searches_df, written>>

NextSplit == StratifiedSplit

SpecSplit == InitSplit /\ [][NextSplit]_vars

\* |x|
Abs(x) == IF x < 0 THEN -x ELSE x

\* C19: for a final dataset of at least 1000 rows, for each engagement_score
\* value the fraction of that value in train differs from its fraction in
\* the full dataset by less than 0.02 (= 1/50).
C19_StratifiedFractions ==
    (pc = "split_done" /\ TotalCount(df) >= 1000) =>
        \A c \in DOMAIN df :
            50 * Abs(train_df[c] * TotalCount(df) - df[c] * TotalCount(train_df))
                < TotalCount(df) * TotalCount(train_df)

\* a split of 1001 rows with three classes whose shares of the train part
\* are not whole numbers
C19_Witness ==
    /\ pc = "split_done"
    /\ TotalCount(df) = 1001
    /\ df[1] = 7 /\ df[5] = 333
    /\ TotalCount(train_df) = 800
    /\ TotalCount(test_df) = 201

-----------------------------------------------------------------------------
(* Specification SpecMerge: merge_datasets on the three raw snapshots,     *)
(* with users and searches that may or may not repeat a user_id.           *)

\* the most rows of recommendations.parquet
MaxMergeRecs == 2

\* the most rows of users.parquet and of searches.parquet
MaxSideRows == 2

\* the recommendation rows of the merge: for u1, for u2 and for u3, who has
\* neither a user row nor a search row
MergeRecKinds == {1, 3, 6}

RECURSIVE MergeRecSeqs(_)
\* the sequences of n recommendation rows, identifiers 1..n
MergeRecSeqs(n) ==
    IF n = 0 THEN {<<>>}
    ELSE {Append(front, RecRow(k, n)) : front \in MergeRecSeqs(n - 1),
                                        k \in MergeRecKinds}

SearchDtype == [user_id |-> "object", search_origin |-> "object"]

\* the search rows (the tracked columns): one for u1, one for u2, and a
\* second one for u1
SearchRows ==
    <<[user_id |-> "u1", search_origin |-> "PAR"],
      [user_id |-> "u2", search_origin |-> "NYC"],
      [user_id |-> "u1", search_origin |-> "LON"]>>

RECURSIVE SideSeqs(_, _)
\* the sequences of n rows taken from pool
SideSeqs(pool, n) ==
    IF n = 0 THEN {<<>>}
    ELSE {Append(front, pool[k]) : front \in SideSeqs(pool, n - 1),
                                   k \in DOMAIN pool}

InitMerge ==
    /\ window_days = DATA_WINDOW_DAYS /\ metadata = Unused
    /\ rare_threshold = RareThreshold
    /\ pc = "merge_input"
    /\ \E n \in 0..MaxSideRows : \E rows \in SideSeqs(UserRows, n) :
          users_df = Frame(UserColumns, UserDtype, rows)
    /\ \E n \in 0..MaxMergeRecs : \E rows \in MergeRecSeqs(n) :
          recs_df = Frame(RecommendationColumns,
                          [RecDtype EXCEPT !.item_booking_count =
                              IntOrFloat(Column(rows, "item_booking_count"))],
                          rows)
    /\ \E n \in 0..MaxSideRows : \E rows \in SideSeqs(SearchRows, n) :
          searches_df = Frame(SearchColumns, SearchDtype, rows)
    /\ df = Unused /\ train_df = Unused /\ test_df = Unused
    /\ df_in = Unused /\ df_twice = Unused
    /\ row = Unused /\ score = NaN /\ ratio = 0
    /\ written = {"raw/users.parquet", "raw/recommendations.parquet",
                  "raw/searches.parquet"}

\* df = merge_datasets(); df.to_parquet("data/processed/merged.parquet")
MergeSnapshots ==
    /\ pc = "merge_input"
    /\ df' = merge_datasets(users_df, recs_df, searches_df)
    /\ written' = written \cup {"processed/merged.parquet"}
    /\ pc' = "merged"
    /\ UNCHANGED <<window_days, metadata, rare_threshold,
                   row, score, ratio, df_in, df_twice, users_df, recs_df,
                   searches_df, train_df, test_df>>

NextMerge == MergeSnapshots

SpecMerge == InitMerge /\ [][NextMerge]_vars

\* at most one row per user_id
UniqueUserIds(d) ==
    \A i, j \in DOMAIN d.rows : d.rows[i].user_id = d.rows[j].user_id => i = j

\* C20: when users and searches have at most one row per user_id, the
\* output of merge_datasets has exactly one row per recommendation, in the
\* order of the input; a row carries the columns of the user and of the
\* search of its user_id, or nulls where there is none; hence no row exists
\* for a user or a search without a recommendation.
C20_OneRowPerRecommendation ==
    (pc = "merged" /\ UniqueUserIds(users_df) /\ UniqueUserIds(searches_df)) =>
        /\ Len(df.rows) = Len(recs_df.rows)
        /\ \A i \in DOMAIN df.rows :
            LET out == df.rows[i]
                rec == recs_df.rows[i]
                us == Matches(rec, users_df.rows)
                ss == Matches(rec, searches_df.rows)
            IN  /\ \A c \in DOMAIN rec \ {"user_vector"} : out[c] = rec[c]
                /\ IF us = <<>>
                   THEN /\ out.nationality = None
                        /\ out.dateOfBirth = NaN
                        /\ out.globalBudgetRange = NoBudgetRange
                   ELSE /\ out.nationality = us[1].nationality
                        /\ out.dateOfBirth = us[1].dateOfBirth
                        /\ out.globalBudgetRange = us[1].globalBudgetRange
                /\ IF ss = <<>>
                   THEN out.search_origin = None
                   ELSE out.search_origin = ss[1].search_origin

\* a merge of two recommendations, one of them for a user with neither a
\* user row nor a search row, with a user and a search that have no
\* recommendation
C20_Witness ==
    /\ pc = "merged"
    /\ UniqueUserIds(users_df) /\ UniqueUserIds(searches_df)
    /\ Len(recs_df.rows) = 2 /\ Len(df.rows) = 2
    /\ \E i \in DOMAIN recs_df.rows :
          /\ Matches(recs_df.rows[i], users_df.rows) = <<>>
          /\ Matches(recs_df.rows[i], searches_df.rows) = <<>>
          /\ df.rows[i].search_origin = None
    /\ \E i \in DOMAIN recs_df.rows : Matches(recs_df.rows[i], users_df.rows) # <<>>
    /\ \E j \in DOMAIN users_df.rows : Matches(users_df.rows[j], recs_df.rows) = <<>>
    /\ \E j \in DOMAIN searches_df.rows :
          Matches(searches_df.rows[j], recs_df.rows) = <<>>

-----------------------------------------------------------------------------
(* Specification SpecTemporal: calculate_temporal_features on a DataFrame  *)
(* whose date columns hold strings, some of which are not dates.           *)

\* SEASON_MAPPING
SEASON_MAPPING ==
    [m \in 1..12 |-> IF m \in {12, 1, 2} THEN "winter"
                     ELSE IF m \in {3, 4, 5} THEN "spring"
                     ELSE IF m \in {6, 7, 8} THEN "summer"
                     ELSE "autumn"]

\* pandas NaT as a parsed timestamp
NaT == [days |-> NaN, month |-> NaN, dayofweek |-> NaN]

\* the strings that are dates, with the day number (days since 1970-01-01),
\* the month and the day of the week (Monday = 0) they parse to
KnownDates ==
    [x \in {"1990-05-12", "2026-10-03", "2026-12-25"} |->
        CASE x = "1990-05-12" -> [days |-> 7436, month |-> 5, dayofweek |-> 5]
          [] x = "2026-10-03" -> [days |-> 20729, month |-> 10, dayofweek |-> 5]
          [] x = "2026-12-25" -> [days |-> 20812, month |-> 12, dayofweek |-> 4]]

\* a string no date format matches
NotADate == "not-a-date"

\* pd.Timestamp.now(), as a day number (2026-11-06)
TimestampNow == 20763

\* the cell cannot be parsed as a date
unparseable(x) == x # None /\ x \notin DOMAIN KnownDates

\* pd.to_datetime(series) raises (errors='raise', the default)
to_datetime_raises(vals) == \E i \in DOMAIN vals : unparseable(vals[i])

\* pd.to_datetime(x, errors='coerce') of one cell; without errors='coerce'
\* the same when no cell of the series is unparseable
to_datetime(x) == IF x \in DOMAIN KnownDates THEN KnownDates[x] ELSE NaT

\* clip(lower, upper) of one value, a null stays null
clip(v, lower, upper) ==
    IF v = NaN THEN NaN ELSE IF v < lower THEN lower ELSE IF v > upper THEN upper ELSE v

\* ((pd.Timestamp.now() - dateOfBirth).dt.days // 365).clip(18, 100)
user_age_of(born) ==
    IF born = NaT THEN NaN ELSE clip((TimestampNow - born.days) \div 365, 18, 100)

\* timestamp.dt.month.map(SEASON_MAPPING)
season_of(timestamp) ==
    IF timestamp = NaT THEN None ELSE SEASON_MAPPING[timestamp.month]

\* timestamp.dt.dayofweek.isin([5, 6])
is_weekend_of(timestamp) == timestamp # NaT /\ timestamp.dayofweek \in {5, 6}

\* ((departureDate - timestamp).dt.days).clip(0, 365)
days_until_departure_of(departure, timestamp) ==
    IF departure = NaT \/ timestamp = NaT THEN NaN
    ELSE clip(departure.days - timestamp.days, 0, 365)

\* calculate_temporal_features raises: pd.to_datetime(df['createdAt']) is
\* the one conversion without errors='coerce'
temporal_features_raises(d) ==
    "createdAt" \in d.cols /\ to_datetime_raises(Column(d.rows, "createdAt"))

\* calculate_temporal_features(df) when it returns: the feature columns of
\* the date columns that are present (days_until_departure needs timestamp)
temporal_features(d) ==
    LET has(c) == c \in d.cols
        added == (IF has("dateOfBirth") THEN {"user_age"} ELSE {})
                 \cup (IF has("createdAt")
                       THEN {"timestamp", "season", "is_weekend"} ELSE {})
                 \cup (IF has("departureDate") /\ has("createdAt")
                       THEN {"days_until_departure"} ELSE {})
        feature(r, c) ==
            CASE c = "user_age" -> user_age_of(to_datetime(r.dateOfBirth))
              [] c = "timestamp" -> to_datetime(r.createdAt).days
              [] c = "season" -> season_of(to_datetime(r.createdAt))
              [] c = "is_weekend" -> is_weekend_of(to_datetime(r.createdAt))
              [] c = "days_until_departure" ->
                     days_until_departure_of(to_datetime(r.departureDate),
                                             to_datetime(r.createdAt))
    IN  Frame(d.cols \cup added
                 \cup {"days_since_last_search", "days_since_last_booking"},
              [c \in Tracked(d) \cup added |->
                  IF c \in Tracked(d) THEN d.dtype[c]
                  ELSE IF c = "season" THEN "object"
                  ELSE IF c = "is_weekend" THEN "bool"
                  ELSE IF c = "timestamp" THEN "datetime64"
                  ELSE "float64"],
              [i \in DOMAIN d.rows |->
                  [c \in Tracked(d) \cup added |->
                      IF c \in Tracked(d) THEN d.rows[i][c]
                      ELSE feature(d.rows[i], c)]])

\* the most rows of the DataFrame
MaxTemporalRows == 2

TemporalCols == {"dateOfBirth", "createdAt", "departureDate"}

\* the cells of a date column: a date, a string that is no date, a null
TemporalCells(c) ==
    {NotADate, None} \cup
    {CASE c = "dateOfBirth" -> "1990-05-12"
       [] c = "createdAt" -> "2026-10-03"
       [] c = "departureDate" -> "2026-12-25"}

\* the DataFrames with the date columns cs and n rows
TemporalFrames(cs, n) ==
    {Frame(cs, [c \in cs |-> "object"], rows) :
        rows \in [1..n -> {r \in [cs -> {NotADate, None} \cup DOMAIN KnownDates] :
                              \A c \in cs : r[c] \in TemporalCells(c)}]}

InitTemporal ==
    /\ window_days = DATA_WINDOW_DAYS /\ metadata = Unused
    /\ rare_threshold = RareThreshold
    /\ pc = "temporal_input"
    /\ \E cs \in {TemporalCols, {"dateOfBirth", "departureDate"},
                  {"dateOfBirth", "createdAt"}} :
       \E n \in 0..MaxTemporalRows :
          df_in \in TemporalFrames(cs, n)
    /\ df = Unused /\ df_twice = Unused
    /\ train_df = Unused /\ test_df = Unused
    /\ users_df = Unused /\ recs_df = Unused /\ searches_df = Unused
    /\ row = Unused /\ score = NaN /\ ratio = 0
    /\ written = {}

\* df = calculate_temporal_features(df)
CalculateTemporalFeatures ==
    /\ pc = "temporal_input"
    /\ IF temporal_features_raises(df_in)
       THEN pc' = "temporal_raised" /\ UNCHANGED df
       ELSE pc' = "temporal_returned" /\ df' = temporal_features(df_in)
    /\ UNCHANGED <<window_days, metadata, rare_threshold,
                   row, score, ratio, df_in, df_twice,
                   users_df, recs_df, searches_df, train_df, test_df, written>>

NextTemporal == CalculateTemporalFeatures

SpecTemporal == InitTemporal /\ [][NextTemporal]_vars

\* C22: calculate_temporal_features never raises on an unparseable date;
\* for every row whose dateOfBirth, createdAt or departureDate cannot be
\* parsed the features derived from that field are null for that row.
C22_UnparseableDatesYieldNull ==
    /\ pc # "temporal_raised"
    /\ pc = "temporal_returned" =>
        \A i \in DOMAIN df_in.rows :
            LET r == df_in.rows[i]
                out == df.rows[i]
            IN  /\ ("dateOfBirth" \in df_in.cols /\ unparseable(r.dateOfBirth))
                       => out.user_age = NaN
                /\ ("createdAt" \in df_in.cols /\ unparseable(r.createdAt))
                       => (out.timestamp = NaN /\ out.season = None)
                /\ ("departureDate" \in df_in.cols /\ "createdAt" \in df_in.cols
                       /\ unparseable(r.departureDate))
                       => out.days_until_departure = NaN

-----------------------------------------------------------------------------
(* Specification SpecUnpack: unpack_8d_vectors on a DataFrame whose        *)
(* user_vector cells are well-formed, missing or malformed.                *)

\* the most rows of the DataFrame
MaxUnpackRows == 3

UnpackKinds == 1..6

\* the user_vector cell of kind k
UnpackCell(k) ==
    CASE k = 1 -> [type |-> "list", float |-> FALSE,
                   vals |-> <<10, 20, 30, 40, 50, 60, 70, 80>>]
      [] k = 2 -> NoVector
      [] k = 3 -> [type |-> "list", float |-> FALSE,
                   vals |-> <<10, 20, 30, 40, 50, 60, 70>>]
      [] k = 4 -> [type |-> "list", float |-> FALSE,
                   vals |-> <<10, 20, 30, 40, 50, 60, 70, 80, 90>>]
      [] k = 5 -> [type |-> "ndarray", float |-> FALSE,
                   vals |-> <<10, 20, 30, 40, 50, 60, 70, 80>>]
      [] k = 6 -> [type |-> "str", float |-> FALSE, vals |-> <<>>]

InitUnpack ==
    /\ window_days = DATA_WINDOW_DAYS /\ metadata = Unused
    /\ rare_threshold = RareThreshold
    /\ pc = "unpack_input"
    /\ \E n \in 0..MaxUnpackRows : \E kinds \in [1..n -> UnpackKinds] :
          df_in = Frame({"recommendation_id", "user_vector"},
                        [recommendation_id |-> "int64", user_vector |-> "object"],
                        [i \in 1..n |-> [recommendation_id |-> i,
                                         user_vector |-> UnpackCell(kinds[i])]])
    /\ df = Unused /\ df_twice = Unused
    /\ train_df = Unused /\ test_df = Unused
    /\ users_df = Unused /\ recs_df = Unused /\ searches_df = Unused
    /\ row = Unused /\ score = NaN /\ ratio = 0
    /\ written = {}

\* df = unpack_8d_vectors(df)
UnpackVectors ==
    /\ pc = "unpack_input"
    /\ IF unpack_raises(Column(df_in.rows, "user_vector"))
       THEN pc' = "unpack_raised" /\ UNCHANGED df
       ELSE pc' = "unpack_returned" /\ df' = unpack_8d_vectors(df_in)
    /\ UNCHANGED <<window_days, metadata, rare_threshold,
                   row, score, ratio, df_in, df_twice,
                   users_df, recs_df, searches_df, train_df, test_df, written>>

NextUnpack == UnpackVectors

SpecUnpack == InitUnpack /\ [][NextUnpack]_vars

\* the cell is a list of eight elements
WellFormed(x) == x.type = "list" /\ Len(x.vals) = 8

\* C23: unpack_8d_vectors never raises; a row whose user_vector is missing
\* or malformed (null, not a list, a list whose length is not 8) gets 0 in
\* all eight scalar columns, and the k-th element of a well-formed vector
\* goes to the column of the k-th name of VECTOR_DIMENSIONS.
C23_UnpackNeverRaises ==
    /\ pc # "unpack_raised"
    /\ pc = "unpack_returned" =>
        \A i \in DOMAIN df_in.rows : \A k \in DOMAIN VECTOR_DIMENSIONS :
            df.rows[i]["user_" \o VECTOR_DIMENSIONS[k]] =
                IF WellFormed(df_in.rows[i].user_vector)
                THEN df_in.rows[i].user_vector.vals[k]
                ELSE 0

-----------------------------------------------------------------------------
(* Specification SpecOutliers: remove_outliers on DataFrames large enough  *)
(* for a value to lie outside three standard deviations.                   *)

\* the most rows that differ from the common row
MaxSpecialRows == 3

\* the numbers of common rows
CommonCounts == {0, 2, 10, 11}

OutlierCols == {"recommendation_id", "budget_max", "user_age", "item_booking_count"}

OutlierKinds == 1..5

\* the row of kind k with identifier i; kind 0 is the common row
OutlierRow(k, i) ==
    LET common == [recommendation_id |-> i, budget_max |-> 0, user_age |-> 30,
                   item_booking_count |-> 0]
    IN  CASE k = 0 -> common
          [] k = 1 -> [common EXCEPT !.budget_max = 100, !.user_age = 90]
          [] k = 2 -> [common EXCEPT !.user_age = 31]
          [] k = 3 -> [common EXCEPT !.item_booking_count = NaN]
          [] k = 4 -> [common EXCEPT !.item_booking_count = 5]
          [] k = 5 -> [common EXCEPT !.budget_max = 1]

InitOutliers ==
    /\ window_days = DATA_WINDOW_DAYS /\ metadata = Unused
    /\ rare_threshold = RareThreshold
    /\ pc = "outliers_input"
    /\ \E cs \in {OutlierCols, OutlierCols \ {"user_age"}} :
       \E m \in CommonCounts :
       \E n \in 0..MaxSpecialRows :
       \E kinds \in [1..n -> OutlierKinds] :
          LET rows == [i \in 1..(m + n) |->
                          IF i <= m THEN OutlierRow(0, i)
                          ELSE OutlierRow(kinds[i - m], i)]
          IN  df_in = Frame(cs,
                            [c \in cs |->
                                IF c = "item_booking_count"
                                THEN IntOrFloat(Column(rows, c)) ELSE "int64"],
                            [i \in DOMAIN rows |-> [c \in cs |-> rows[i][c]]])
    /\ df = Unused /\ df_twice = Unused
    /\ train_df = Unused /\ test_df = Unused
    /\ users_df = Unused /\ recs_df = Unused /\ searches_df = Unused
    /\ row = Unused /\ score = NaN /\ ratio = 0
    /\ written = {}

\* df = remove_outliers(df)
RemoveOutliers ==
    /\ pc = "outliers_input"
    /\ df' = remove_outliers(df_in)
    /\ pc' = "outliers_removed"
    /\ UNCHANGED <<window_days, metadata, rare_threshold,
                   row, score, ratio, df_in, df_twice,
                   users_df, recs_df, searches_df, train_df, test_df, written>>

NextOutliers == RemoveOutliers

SpecOutliers == InitOutliers /\ [][NextOutliers]_vars

\* the rows of rows whose value of column c lies within mean - 3*std and
\* mean + 3*std of the column over these rows, when the column is in cols
\* and its std is greater than 0.  With n values x of sum S and
\* D = sum of (n*x - S)^2, std^2 = D / (n*n*(n-1)) and |v - mean| <= 3*std
\* reads (n-1) * (n*v - S)^2 <= 9 * D.
RowsWithin3Sigma(rows, cols, c) ==
    LET xs == SelectIdx(rows, {i \in DOMAIN rows : rows[i][c] # NaN})
        n == Len(xs)
        S == SumSeq([i \in DOMAIN xs |-> xs[i][c]])
        D == SumSeq([i \in DOMAIN xs |-> (n * xs[i][c] - S) * (n * xs[i][c] - S)])
    IN  IF c \notin cols \/ n < 2 \/ D = 0 THEN rows
        ELSE SelectIdx(rows, {i \in DOMAIN rows :
                 /\ rows[i][c] # NaN
                 /\ (n - 1) * (n * rows[i][c] - S) * (n * rows[i][c] - S) <= 9 * D})

\* C24: remove_outliers processes budget_max, user_age and
\* item_booking_count in that order; each column present keeps exactly the
\* rows within mean +/- 3*std computed over the rows left by the columns
\* before; a column whose std is not greater than 0 removes no row.
C24_SequentialThreeSigma ==
    pc = "outliers_removed" =>
        /\ df.rows =
              RowsWithin3Sigma(
                  RowsWithin3Sigma(
                      RowsWithin3Sigma(df_in.rows, df_in.cols, "budget_max"),
                      df_in.cols, "user_age"),
                  df_in.cols, "item_booking_count")
        /\ df.cols = df_in.cols

\* eleven common rows, one row that is an outlier of budget_max and one
\* that is an outlier of user_age only once the first is gone: both removed
C24_Witness ==
    /\ pc = "outliers_removed"
    /\ Len(df_in.rows) = 12 /\ Len(df.rows) = 10
    /\ "user_age" \in df_in.cols
    /\ \E i, j \in DOMAIN df_in.rows :
          /\ df_in.rows[i].budget_max = 100
          /\ df_in.rows[j].user_age = 31
    /\ \A i \in DOMAIN df.rows : df.rows[i].user_age = 30

-----------------------------------------------------------------------------
(* Specification SpecImpute: impute_missing_values on DataFrames with a    *)
(* numeric and a string column that hold no, some or only nulls.           *)

\* the most rows of the DataFrame
MaxImputeRows == 3

ImputeDtype ==
    [recommendation_id |-> "int64", item_booking_count |-> "float64",
     item_country |-> "object"]

\* the cells of the numeric column (even, see median)
ImputeNumbers == {NaN, 0, 2, 4}

\* the cells of the string column
ImputeStrings == {None, "FR", "JP"}

InitImpute ==
    /\ window_days = DATA_WINDOW_DAYS /\ metadata = Unused
    /\ rare_threshold = RareThreshold
    /\ pc = "impute_input"
    /\ \E n \in 0..MaxImputeRows :
       \E nums \in [1..n -> ImputeNumbers] :
       \E strs \in [1..n -> ImputeStrings] :
          df_in = Frame(DOMAIN ImputeDtype, ImputeDtype,
                        [i \in 1..n |-> [recommendation_id |-> i,
                                         item_booking_count |-> nums[i],
                                         item_country |-> strs[i]]])
    /\ df = Unused /\ df_twice = Unused
    /\ train_df = Unused /\ test_df = Unused
    /\ users_df = Unused /\ recs_df = Unused /\ searches_df = Unused
    /\ row = Unused /\ score = NaN /\ ratio = 0
    /\ written = {}

\* df = impute_missing_values(df)
ImputeMissingValues ==
    /\ pc = "impute_input"
    /\ df' = impute_missing_values(df_in)
    /\ pc' = "imputed"
    /\ UNCHANGED <<window_days, metadata, rare_threshold,
                   row, score, ratio, df_in, df_twice,
                   users_df, recs_df, searches_df, train_df, test_df, written>>

NextImpute == ImputeMissingValues

SpecImpute == InitImpute /\ [][NextImpute]_vars

\* C25: after impute_missing_values no numeric and no string column holds
\* a null: a null of a numeric column is replaced by the median of the
\* column's non-null values, a null of a string column by "UNKNOWN"; the
\* other values and the rows are unchanged (also when a column holds no
\* null or only nulls).
C25_NoNullAfterImputation ==
    pc = "imputed" =>
        /\ Len(df.rows) = Len(df_in.rows)
        /\ \A i \in DOMAIN df.rows : \A c \in Tracked(df_in) :
            /\ ~isnull(df, c, df.rows[i][c])
            /\ df.rows[i][c] =
                  IF ~isnull(df_in, c, df_in.rows[i][c]) THEN df_in.rows[i][c]
                  ELSE IF df_in.dtype[c] = "object" THEN "UNKNOWN"
                  ELSE median(df_in, c)

-----------------------------------------------------------------------------
(* Specification SpecRare: remove_rare_categories(df, threshold) on a      *)
(* DataFrame with a string column, the binned age column and a vector      *)
(* column.                                                                 *)

\* the most rows of the DataFrame
MaxRareRows == 3

\* the largest threshold
MaxThreshold == 3

RareDtype ==
    [recommendation_id |-> "int64", item_country |-> "object",
     user_age_group |-> "category", user_vector |-> "object"]

\* the cells of item_country
RareCountries == {"FR", "JP", None}

\* the cells of user_age_group, as bin_age leaves them
RareAgeGroups == {cut_age(24), cut_age(30)}

\* the cells of user_vector
RareVectors == {None, ListCell}

InitRare ==
    /\ window_days = DATA_WINDOW_DAYS /\ metadata = Unused
    /\ rare_threshold \in 1..MaxThreshold
    /\ pc = "rare_input"
    /\ \E n \in 0..MaxRareRows :
       \E countries \in [1..n -> RareCountries] :
       \E groups \in [1..n -> RareAgeGroups] :
       \E vector \in RareVectors :
          df_in = Frame(DOMAIN RareDtype, RareDtype,
                        [i \in 1..n |-> [recommendation_id |-> i,
                                         item_country |-> countries[i],
                                         user_age_group |-> groups[i],
                                         user_vector |-> vector]])
    /\ df = Unused /\ df_twice = Unused
    /\ train_df = Unused /\ test_df = Unused
    /\ users_df = Unused /\ recs_df = Unused /\ searches_df = Unused
    /\ row = Unused /\ score = NaN /\ ratio = 0
    /\ written = {}

\* df = remove_rare_categories(df, threshold)
RemoveRareCategories ==
    /\ pc = "rare_input"
    /\ IF value_counts_raises(df_in)
       THEN pc' = "rare_raised" /\ UNCHANGED df
       ELSE pc' = "rare_removed"
            /\ df' = remove_rare_categories(df_in, rare_threshold)
    /\ UNCHANGED <<window_days, metadata, rare_threshold,
                   row, score, ratio, df_in, df_twice,
                   users_df, recs_df, searches_df, train_df, test_df, written>>

NextRare == RemoveRareCategories

SpecRare == InitRare /\ [][NextRare]_vars

\* the columns that hold categories: strings, or the labels of pd.cut
CategoricalCols(d) == {c \in Tracked(d) : d.dtype[c] \in {"object", "category"}}

\* the number of rows of d whose column c holds v
Occurrences(d, c, v) == Cardinality({i \in DOMAIN d.rows : d.rows[i][c] = v})

\* C26: after remove_rare_categories(df, threshold), in every categorical
\* column each value that occurred fewer than threshold times in that column
\* is replaced by 'OTHER' and each value that occurred at least threshold
\* times is unchanged; no row is removed and no other column is changed.
C26_RareValuesSuppressed ==
    pc = "rare_removed" =>
        /\ Len(df.rows) = Len(df_in.rows)
        /\ \A i \in DOMAIN df.rows : \A c \in Tracked(df_in) :
            df.rows[i][c] =
                IF /\ c \in CategoricalCols(df_in)
                   /\ df_in.rows[i][c] # None
                   /\ Occurrences(df_in, c, df_in.rows[i][c]) < rare_threshold
                THEN "OTHER"
                ELSE df_in.rows[i][c]

-----------------------------------------------------------------------------
(* Specification SpecTime: calculate_time_to_interaction applied to the    *)
(* rows of a DataFrame whose timestamp cells are times, nulls or strings   *)
(* that are no times.                                                      *)

\* the strings that are times, with the milliseconds since midnight they
\* parse to
KnownTimes ==
    [x \in {"09:59:58.500", "10:00:00.000", "10:00:01.500", "10:00:03.000",
            "10:00:05.000"} |->
        CASE x = "09:59:58.500" -> 35998500
          [] x = "10:00:00.000" -> 36000000
          [] x = "10:00:01.500" -> 36001500
          [] x = "10:00:03.000" -> 36003000
          [] x = "10:00:05.000" -> 36005000]

\* int(x) for x = ms / 1000: the fraction is cut off, towards zero
int_seconds(ms) == IF ms >= 0 THEN ms \div 1000 ELSE -((-ms) \div 1000)

\* calculate_time_to_interaction with the precedence order of the score:
\* bookedAt, clickedAt, viewedAt
calculate_time_to_interaction_Mut(r) ==
    IF r.createdAt = None THEN NaN
    ELSE LET interaction_time ==
                 IF r.bookedAt # None THEN r.bookedAt
                 ELSE IF r.clickedAt # None THEN r.clickedAt
                 ELSE IF r.viewedAt # None THEN r.viewedAt
                 ELSE None
         IN  IF interaction_time = None THEN NaN
             ELSE IF \/ interaction_time \notin DOMAIN KnownTimes
                     \/ r.createdAt \notin DOMAIN KnownTimes
                  THEN NaN
             ELSE int_seconds(KnownTimes[interaction_time] - KnownTimes[r.createdAt])

\* calculate_time_to_interaction(row); None is returned as a null of the
\* new column; pd.to_datetime raises inside the try block on a string that
\* is no time
calculate_time_to_interaction(r) ==
    IF r.createdAt = None THEN NaN
    ELSE LET interaction_time ==
                 IF r.viewedAt # None THEN r.viewedAt
                 ELSE IF r.clickedAt # None THEN r.clickedAt
                 ELSE IF r.bookedAt # None THEN r.bookedAt
                 ELSE None
         IN  IF interaction_time = None THEN NaN
             ELSE IF \/ interaction_time \notin DOMAIN KnownTimes
                     \/ r.createdAt \notin DOMAIN KnownTimes
                  THEN NaN
             ELSE int_seconds(KnownTimes[interaction_time] - KnownTimes[r.createdAt])

\* the most rows of the DataFrame
MaxTimeRows == 1

\* the cells of a timestamp column: a time, a string that is no time, a null
TimeCells(c) ==
    {NotADate, None} \cup
    (CASE c = "createdAt" -> {"10:00:00.000"}
       [] c = "viewedAt" -> {"10:00:01.500"}
       [] c = "clickedAt" -> {"10:00:03.000"}
       [] c = "bookedAt" -> {"10:00:05.000", "09:59:58.500"})

TimeCols == {"createdAt", "viewedAt", "clickedAt", "bookedAt"}

InitTime ==
    /\ window_days = DATA_WINDOW_DAYS /\ metadata = Unused
    /\ rare_threshold = RareThreshold
    /\ pc = "time_input"
    /\ \E n \in 0..MaxTimeRows :
       \E rows \in [1..n -> {r \in [TimeCols -> {NotADate, None} \cup DOMAIN KnownTimes] :
                                \A c \in TimeCols : r[c] \in TimeCells(c)}] :
          df_in = Frame(TimeCols, [c \in TimeCols |-> "object"], rows)
    /\ df = Unused /\ df_twice = Unused
    /\ train_df = Unused /\ test_df = Unused
    /\ users_df = Unused /\ recs_df = Unused /\ searches_df = Unused
    /\ row = Unused /\ score = NaN /\ ratio = 0
    /\ written = {}

\* df['time_to_interaction'] = df.apply(calculate_time_to_interaction, axis=1)
ApplyTimeToInteraction ==
    /\ pc = "time_input"
    /\ df' = WithColumn(df_in, "time_to_interaction", "float64",
                 [i \in DOMAIN df_in.rows |->
                     calculate_time_to_interaction(df_in.rows[i])])
    /\ pc' = "time_applied"
    /\ UNCHANGED <<window_days, metadata, rare_threshold,
                   row, score, ratio, df_in, df_twice,
                   users_df, recs_df, searches_df, train_df, test_df, written>>

NextTime == ApplyTimeToInteraction

SpecTime == InitTime /\ [][NextTime]_vars

\* the first non-null cell of the row in the order viewedAt, clickedAt,
\* bookedAt; None when all three are null
FirstInteraction(r) ==
    LET order == <<"viewedAt", "clickedAt", "bookedAt">>
        present == {k \in DOMAIN order : r[order[k]] # None}
    IN  IF present = {} THEN None
        ELSE r[order[CHOOSE k \in present : \A j \in present : k <= j]]

\* C27: calculate_time_to_interaction returns null when createdAt is null
\* or viewedAt, clickedAt and bookedAt are all null; otherwise the whole
\* seconds (the fraction cut off) from createdAt to the first non-null
\* timestamp in the order viewedAt, clickedAt, bookedAt; null when a
\* timestamp cannot be parsed.
C27_TimeToFirstInteraction ==
    pc = "time_applied" =>
        \A i \in DOMAIN df_in.rows :
            LET r == df_in.rows[i]
                t == FirstInteraction(r)
                out == df.rows[i].time_to_interaction
            IN  /\ (r.createdAt = None \/ t = None) => out = NaN
                /\ (r.createdAt # None /\ t # None
                      /\ (r.createdAt = NotADate \/ t = NotADate)) => out = NaN
                /\ (r.createdAt \in DOMAIN KnownTimes /\ t \in DOMAIN KnownTimes) =>
                      LET ms == KnownTimes[t] - KnownTimes[r.createdAt]
                      IN  /\ out # NaN
                          /\ (ms >= 0) = (out >= 0) \/ out = 0
                          /\ Abs(out) * 1000 <= Abs(ms)
                          /\ Abs(ms) < (Abs(out) + 1) * 1000

\* a booked row that was also viewed is measured to viewedAt: 1.5 s give 1
C27_Witness ==
    /\ pc = "time_applied"
    /\ \E i \in DOMAIN df_in.rows :
          /\ df_in.rows[i].createdAt = "10:00:00.000"
          /\ df_in.rows[i].viewedAt = "10:00:01.500"
          /\ df_in.rows[i].bookedAt = "10:00:05.000"
          /\ df.rows[i].time_to_interaction = 1

-----------------------------------------------------------------------------
(* Specification SpecValidate: validate_dataset and                        *)
(* validators.validate_vector_ranges on a DataFrame with and without the   *)
(* optional columns, with legal and illegal values.                        *)

\* largest number of rows of the DataFrame handed to the validators
MaxValidateRows == 2

\* columns the DataFrame may or may not carry
ValidateOptionalCols == {"item_destination_id", "interaction_type", "user_group_type"}

\* df.columns of the DataFrame, in order
ValidateColumnOrder ==
    <<"user_hash", "user_climate_pref", "user_culture_pref", "user_budget_level",
      "interaction_type", "user_activity_level", "user_group_type",
      "item_destination_id", "recommendation_score", "engagement_score",
      "booking_probability">>

ValidateKinds == 1..7

\* the row of kind k
ValidateRow(k) ==
    LET base == [user_hash |-> "h1", user_climate_pref |-> 1, user_culture_pref |-> 0,
                 user_budget_level |-> 1, interaction_type |-> "VIEWED",
                 user_activity_level |-> 1, user_group_type |-> 0,
                 item_destination_id |-> "d1", recommendation_score |-> 1,
                 engagement_score |-> 1, booking_probability |-> 0]
    IN  CASE k = 1 -> base
          [] k = 2 -> [base EXCEPT !.user_climate_pref = 2, !.user_group_type = 3]
          [] k = 3 -> [base EXCEPT !.engagement_score = 2]
          [] k = 4 -> [base EXCEPT !.engagement_score = 5, !.booking_probability = 2]
          [] k = 5 -> [base EXCEPT !.recommendation_score = NaN]
          [] k = 6 -> [base EXCEPT !.user_budget_level = -1]
          [] k = 7 -> [base EXCEPT !.item_destination_id = None]

RECURSIVE ValidateRowSeqs(_)
\* the sequences of n rows
ValidateRowSeqs(n) ==
    IF n = 0 THEN {<<>>}
    ELSE {Append(front, ValidateRow(k)) :
             front \in ValidateRowSeqs(n - 1), k \in ValidateKinds}

ValidateDtype ==
    [user_hash |-> "object", user_climate_pref |-> "float64",
     user_culture_pref |-> "float64", user_budget_level |-> "int64",
     interaction_type |-> "object", user_activity_level |-> "float64",
     user_group_type |-> "int64", item_destination_id |-> "object",
     recommendation_score |-> "float64", engagement_score |-> "float64",
     booking_probability |-> "int64"]

\* the DataFrame with the columns cs and the rows (restricted to cs)
ValidateFrame(cs, rows) ==
    Frame(cs, [c \in cs |-> ValidateDtype[c]],
          [i \in DOMAIN rows |-> [c \in cs |-> rows[i][c]]])

InitValidate ==
    /\ window_days = DATA_WINDOW_DAYS /\ metadata = Unused
    /\ rare_threshold = RareThreshold
    /\ pc = "validate_input"
    /\ \E opt \in SUBSET ValidateOptionalCols :
       \E n \in 0..MaxValidateRows :
       \E rows \in ValidateRowSeqs(n) :
          df_in = ValidateFrame((Range(ValidateColumnOrder) \ ValidateOptionalCols)
                                    \cup opt, rows)
    /\ df = Unused /\ df_twice = Unused
    /\ row = Unused /\ score = NaN /\ ratio = 0
    /\ users_df = Unused /\ recs_df = Unused /\ searches_df = Unused
    /\ train_df = Unused /\ test_df = Unused /\ written = {}

\* validate_dataset(df): df is left as the call leaves it
ValidateDataset ==
    /\ pc = "validate_input"
    /\ IF required_columns_raises(df_in)
       THEN pc' = "validate_raised" /\ df' = df_in
       ELSE /\ df' = validate_vector_ranges_inplace(df_in, ValidateColumnOrder)
            /\ pc' = IF validate_dataset_raises(df_in) THEN "validate_raised"
                     ELSE "validate_ok"
    /\ UNCHANGED <<window_days, metadata, rare_threshold,
                   row, score, ratio, df_in, df_twice, users_df, recs_df,
                   searches_df, train_df, test_df, written>>

\* validators.validate_vector_ranges(df) on its own
ValidateVectorRanges ==
    /\ pc = "validate_input"
    /\ df' = validate_vector_ranges_inplace(df_in, ValidateColumnOrder)
    /\ pc' = IF vector_ranges_raises(df_in) THEN "ranges_raised" ELSE "ranges_ok"
    /\ UNCHANGED <<window_days, metadata, rare_threshold,
                   row, score, ratio, df_in, df_twice, users_df, recs_df,
                   searches_df, train_df, test_df, written>>

NextValidate == ValidateDataset \/ ValidateVectorRanges

SpecValidate == InitValidate /\ [][NextValidate]_vars

\* a required column is missing or holds a null, or a label is illegal
IllegalForValidation(d) ==
    \/ ~(REQUIRED_COLUMNS \subseteq d.cols)
    \/ \E i \in DOMAIN d.rows :
          \/ \E c \in REQUIRED_COLUMNS : isnull(d, c, d.rows[i][c])
          \/ d.rows[i].engagement_score \notin {-1, 0, 1, 3, 5}
          \/ d.rows[i].booking_probability \notin {0, 1}

\* C16: validate_dataset raises whenever a REQUIRED_COLUMNS column is
\* missing, a required column holds a null, some engagement_score is outside
\* -1, 0, 1, 3, 5 or some booking_probability is outside 0, 1.
C16_IllegalDatasetRaises ==
    (pc \in {"validate_ok", "validate_raised"} /\ IllegalForValidation(df_in))
        => pc = "validate_raised"

\* validate_dataset raised on a DataFrame whose only defect is an
\* engagement_score of 2
C16_Witness ==
    /\ pc = "validate_raised"
    /\ ~required_columns_raises(df_in)
    /\ "interaction_type" \notin df_in.cols
    /\ \E i \in DOMAIN df_in.rows : df_in.rows[i].engagement_score = 2
    /\ \A i \in DOMAIN df_in.rows : df_in.rows[i].booking_probability \in {0, 1}

\* C17: validators.validate_vector_ranges never raises; it clips into [0,1]
\* the numeric columns whose name ends in _pref, _level or _type and leaves
\* every other column, the string column interaction_type included,
\* unchanged.
C17_RangeCheckNeverFatal ==
    pc \in {"ranges_ok", "ranges_raised"} =>
        /\ pc = "ranges_ok"
        /\ \A i \in DOMAIN df.rows : \A c \in Tracked(df) :
              df.rows[i][c] =
                  IF c \in ColsWithVectorSuffix /\ IsNumericDtype(df_in.dtype[c])
                  THEN clip01(df_in.rows[i][c])
                  ELSE df_in.rows[i][c]

=============================================================================
